---- MODULE Spec2Model ----
(***************************************************************************)
(* The quotation assistant of src/backend: the per-session dialogue of     *)
(* chatbot_sqlFinal.process_message, the slot-completeness resolver, the   *)
(* service matcher, the quotation formatter and the download path of       *)
(* main.py (get_quotation_data / parse_quotation_text).                    *)
(*                                                                         *)
(* Python values are modelled as tagged records (PyNone, PyStr, PyInt) so  *)
(* that truthiness (`if value:`, `not info[field]`) is computed as Python  *)
(* computes it.  Every call to the text-completion service is an oracle:   *)
(* its reply is drawn from a small set, or the call raises.                *)
(***************************************************************************)
EXTENDS Integers, Sequences, FiniteSets, TLC

VARIABLES
    conversation_context,   \* _conversation_context: session id -> context dict
    result,                 \* the dict returned by the last process_message call
    turn,                   \* what the last call did: operation, session, message, branch
    confirmed,              \* history: per session, the quotations confirmed since it was created
    probe,                  \* input and output of a function applied on its own
    df_cache,               \* _df_cache: the snapshot of the table, or None
    data_analysis_cache,    \* _data_analysis_cache: the analysis of the snapshot, or None
    source,                 \* what connection.get_quotation_data_as_df returns at present
    call                    \* the last call of the data layer and what it returned

vars == <<conversation_context, result, turn, confirmed, probe,
          df_cache, data_analysis_cache, source, call>>

----------------------------------------------------------------------------
(* Python values *)

PyNone == [type |-> "NoneType", str |-> "", int |-> 0]
PyStr(s) == [type |-> "str", str |-> s, int |-> 0]
PyInt(n) == [type |-> "int", str |-> "", int |-> n]

\* bool(v): None, "" and 0 are falsy
Truthy(v) ==
    CASE v.type = "NoneType" -> FALSE
      [] v.type = "str" -> v.str # ""
      [] v.type = "int" -> v.int # 0

SlotNames ==
    <<"category", "unit_type", "service_type", "hp_size",
      "brand", "fixture_type", "issue_type", "quantity">>

SlotSet == {SlotNames[i] : i \in 1..Len(SlotNames)}

\* the value of a context key, None when the key is absent (dict.get)
Get(info, key) == IF key \in DOMAIN info THEN info[key] ELSE PyNone

----------------------------------------------------------------------------
(* Slot-completeness resolver: determine_missing_info_with_llm *)

KnownCategories == {"Aircon Servicing", "Aircon Installation", "Aircon Repair", "Plumber"}

required_fields(category) ==
    CASE category = "Aircon Servicing" -> <<"unit_type", "service_type", "hp_size", "quantity">>
      [] category = "Aircon Installation" -> <<"unit_type", "hp_size", "brand", "quantity">>
      [] category = "Aircon Repair" -> <<"unit_type", "issue_type", "quantity">>
      [] category = "Plumber" -> <<"fixture_type", "issue_type", "quantity">>
      [] OTHER -> <<>>

\* a question text: the canned sentence and the value interpolated into it
Question(id, arg) == [id |-> id, arg |-> arg]
NoQuestion == Question("None", "")
GenericQuestion == Question("Could you provide more details about your service request?", "")

\* str(value) as an f-string renders it
Render(v) == IF v.type = "str" THEN v.str ELSE IF v.type = "NoneType" THEN "None" ELSE "int"

question_for(field, category, info) ==
    CASE field = "unit_type" ->
            Question("What type of aircon unit is it (e.g., window, split, cassette)?", "")
      [] field = "service_type" ->
            Question("What type of service do you need (e.g., basic servicing, chemical cleaning, gas top-up)?", "")
      [] field = "hp_size" ->
            Question("What is the horsepower (HP) of the aircon unit?", "")
      [] field = "quantity" ->
            IF category = "Plumber"
            THEN Question("How many {fixture_type}s need service?",
                          IF "fixture_type" \in DOMAIN info
                          THEN Render(info["fixture_type"]) ELSE "plumbing fixtures")
            ELSE Question("How many aircon units do you want to service?", "")
      [] field = "brand" ->
            Question("What brand of aircon do you want to install?", "")
      [] field = "fixture_type" ->
            Question("What type of plumbing fixture needs service (e.g., toilet, sink, pipe)?", "")
      [] field = "issue_type" ->
            IF category = "Plumber"
            THEN Question("What is the issue with your {fixture_type} (e.g., leaking, clogged, broken)?",
                          IF "fixture_type" \in DOMAIN info
                          THEN Render(info["fixture_type"]) ELSE "plumbing fixture")
            ELSE Question("What is the issue with your aircon unit (e.g., not cooling, noise, leaking)?", "")

MissingInfo(enough, key, question) ==
    [has_enough_info |-> enough, missing_key |-> key, next_question |-> question]

\* the replies of the text-completion service to the resolver's prompt
ResolverReplies ==
    {"error",               \* the call raises, or the reply cannot be used
     "enough",              \* {"has_enough_info": true}
     "not_enough",          \* {"has_enough_info": false}
     "asks_brand"}          \* {"has_enough_info": false, "missing_key": "brand", ...}

\* indexes of the required fields that are absent or falsy, in declared order
missing_fields(fields, info) ==
    {i \in 1..Len(fields) : ~(fields[i] \in DOMAIN info /\ Truthy(info[fields[i]]))}

\* a variant that reports the last missing field
Max(S) == CHOOSE x \in S : \A y \in S : x >= y

\* the first field the loop of line 569 finds missing
Min(S) == CHOOSE x \in S : \A y \in S : x <= y

\* a variant that asks the service whenever a category is set
determine_missing_info_service_first(info, llm) ==
    IF ~Truthy(Get(info, "category"))
    THEN MissingInfo(FALSE, PyStr("category"),
            Question("What type of service are you looking for? (e.g., Aircon Servicing, Aircon Installation, Aircon Repair, or Plumber)", ""))
    ELSE CASE llm = "error" -> MissingInfo(FALSE, PyNone, GenericQuestion)
           [] llm = "enough" -> MissingInfo(TRUE, PyNone, NoQuestion)
           [] llm = "not_enough" -> MissingInfo(FALSE, PyNone, GenericQuestion)
           [] llm = "asks_brand" ->
                MissingInfo(FALSE, PyStr("brand"), Question("a question of the service", ""))

determine_missing_info_with_llm(info, llm) ==
    IF ~Truthy(Get(info, "category"))
    THEN MissingInfo(FALSE, PyStr("category"),
            Question("What type of service are you looking for? (e.g., Aircon Servicing, Aircon Installation, Aircon Repair, or Plumber)", ""))
    ELSE IF info["category"].type = "str" /\ info["category"].str \in KnownCategories
    THEN LET category == info["category"].str
             fields == required_fields(category)
             missing == missing_fields(fields, info)
         IN  IF missing # {}
             THEN MissingInfo(FALSE, PyStr(fields[Min(missing)]),
                              question_for(fields[Min(missing)], category, info))
             ELSE MissingInfo(TRUE, PyNone, NoQuestion)
    ELSE \* a category outside the table: the text-completion service decides
         CASE llm = "error" -> MissingInfo(FALSE, PyNone, GenericQuestion)
           [] llm = "enough" -> MissingInfo(TRUE, PyNone, NoQuestion)
           [] llm = "not_enough" -> MissingInfo(FALSE, PyNone, GenericQuestion)
           [] llm = "asks_brand" ->
                MissingInfo(FALSE, PyStr("brand"), Question("a question of the service", ""))

----------------------------------------------------------------------------
(* Tabular data: the rows of table quotation_data.  An item description is  *)
(* the sequence of its space-separated words.                               *)

Row(invoice_no, category, item_description, unit_price) ==
    [invoice_no |-> invoice_no, category |-> category,
     item_description |-> item_description, unit_price |-> unit_price]

\* unit prices are in cents
Database ==
    << Row("INV001", "Aircon Servicing",
           <<"3.0HP", "WALL", "MOUNTED", "CHEMICAL", "CLEANING">>, 15000),
       Row("INV002", "Aircon Servicing",
           <<"1.0HP", "TO", "2.5HP", "WALL", "MOUNTED", "BASIC", "SERVICING">>, 8000),
       Row("INV003", "Plumber",
           <<"REPLACE", "TOILET", "FLUSH", "SYSTEM">>, 12000),
       Row("INV004", "Plumber",
           <<"CLEAR", "CLOGGED", "SINK">>, 9000) >>

\* the table with a further row: the service of the first row for a ceiling unit
Extended ==
    Append(Database,
           Row("INV005", "Aircon Servicing",
               <<"3.0HP", "CEILING", "MOUNTED", "CHEMICAL", "CLEANING">>, 16000))

----------------------------------------------------------------------------
(* The data layer: the table behind connection.get_quotation_data_as_df,    *)
(* the two caches of chatbot_sqlFinal and the calls that fill them.         *)

required_columns ==
    {"invoice_no", "company_name", "item_description", "category", "quantity",
     "unit_price", "subtotal", "tax", "total"}

\* a pandas DataFrame: its columns and its rows; None in place of one
DataFrame(columns, rows) == [type |-> "DataFrame", columns |-> columns, rows |-> rows]
NoFrame == [type |-> "NoneType", columns |-> {}, rows |-> <<>>]

\* the table after every unit price was raised
Repriced == [i \in 1..Len(Database) |-> [Database[i] EXCEPT !.unit_price = @ + 1000]]

\* get_quotation_data_as_df: None when the connection or the query raises, a frame
\* without columns for an empty result, else the frame of the rows with their columns
get_quotation_data_as_df ==
    { NoFrame,
      DataFrame({}, <<>>),
      DataFrame(required_columns \ {"category"}, Database),
      DataFrame(required_columns, Database),
      DataFrame(required_columns, Repriced) }

\* one call of chatbot_sqlFinal.get_quotation_data: the cache after it, whether it
\* raised, the frame it returned and how often it read the table
Loaded(cache, raises, df, loads) ==
    [df_cache |-> cache, raises |-> raises, df |-> df, loads |-> loads]

chatbot_get_quotation_data(cache, table) ==
    IF cache # NoFrame THEN Loaded(cache, FALSE, cache, 0)
    ELSE IF table = NoFrame \/ table.rows = <<>>
    THEN Loaded(table, TRUE, NoFrame, 1)
    ELSE IF required_columns \ table.columns # {}
    THEN Loaded(table, TRUE, NoFrame, 1)
    ELSE Loaded(table, FALSE, table, 1)

\* df['category'].unique().tolist(): the categories in order of first appearance
RECURSIVE unique_categories(_, _)
unique_categories(rows, seen) ==
    IF rows = <<>> THEN seen
    ELSE unique_categories(Tail(rows),
            IF \E i \in 1..Len(seen) : seen[i] = Head(rows).category
            THEN seen ELSE Append(seen, Head(rows).category))

\* the columns that analyze_data reads
analysis_columns ==
    {"invoice_no", "item_description", "category", "unit_price", "subtotal", "tax",
     "total"}

\* the analysis of a frame: per category the number of rows, the descriptions and the
\* least and the greatest unit price
analysis_of(df) ==
    LET categories == unique_categories(df.rows, <<>>)
        names == {categories[i] : i \in 1..Len(categories)}
    IN  [type |-> "dict",
         categories |-> categories,
         category_analysis |->
            [category \in names |->
                LET category_df == SelectSeq(df.rows, LAMBDA row : row.category = category)
                    prices == {category_df[i].unit_price : i \in 1..Len(category_df)}
                IN  [count |-> Len(category_df),
                     services |-> [i \in 1..Len(category_df) |->
                                      category_df[i].item_description],
                     price_range |->
                        [min |-> CHOOSE p \in prices : \A q \in prices : p <= q,
                         max |-> CHOOSE p \in prices : \A q \in prices : p >= q]]]]

NoAnalysis == [type |-> "NoneType", categories |-> <<>>, category_analysis |-> <<>>]

\* one call of analyze_data: the two caches after it, whether it raised, what it
\* returned, how often it read the table and whether it computed an analysis
Analyzed(cache, analysis_cache, raises, analysis, loads, computed) ==
    [df_cache |-> cache, data_analysis_cache |-> analysis_cache, raises |-> raises,
     analysis |-> analysis, loads |-> loads, computed |-> computed]

analyze_data(analysis_cache, cache, table) ==
    IF analysis_cache # NoAnalysis
    THEN Analyzed(cache, analysis_cache, FALSE, analysis_cache, 0, FALSE)
    ELSE LET loaded == chatbot_get_quotation_data(cache, table)
         IN  IF loaded.raises \/ analysis_columns \ loaded.df.columns # {}
             THEN Analyzed(loaded.df_cache, NoAnalysis, TRUE, NoAnalysis, loaded.loads,
                           FALSE)
             ELSE Analyzed(loaded.df_cache, analysis_of(loaded.df), FALSE,
                           analysis_of(loaded.df), loaded.loads, TRUE)

\* a variant that keeps the analysis over the refresh
EmptiedFrameOnly(cache, analysis_cache) ==
    [df_cache |-> NoFrame, data_analysis_cache |-> analysis_cache]

\* the caches that refresh_data empties before it loads and analyses again
Emptied(cache, analysis_cache) ==
    [df_cache |-> NoFrame, data_analysis_cache |-> NoAnalysis]

\* refresh_data on the caches: both are emptied, then get_quotation_data() and
\* analyze_data() run; an exception of the first leaves the second uncalled
refresh_caches(cache, analysis_cache, table) ==
    LET emptied == Emptied(cache, analysis_cache)
        loaded == chatbot_get_quotation_data(emptied.df_cache, table)
    IN  IF loaded.raises
        THEN Analyzed(loaded.df_cache, emptied.data_analysis_cache, TRUE, NoAnalysis,
                      loaded.loads, FALSE)
        ELSE LET analyzed == analyze_data(emptied.data_analysis_cache, loaded.df_cache,
                                          table)
             IN  [analyzed EXCEPT !.loads = loaded.loads + analyzed.loads]

\* the record of a call of the data layer
Called(op, raised, df, analysis, loads, computed) ==
    [op |-> op, raised |-> raised, df |-> df, analysis |-> analysis, loads |-> loads,
     computed |-> computed]

NoCall == Called("none", FALSE, NoFrame, NoAnalysis, 0, FALSE)

\* main.startup_event: get_quotation_data() and analyze_data(), exceptions are logged
startup_caches(table) ==
    LET loaded == chatbot_get_quotation_data(NoFrame, table)
    IN  IF loaded.raises
        THEN Analyzed(loaded.df_cache, NoAnalysis, TRUE, NoAnalysis, loaded.loads, FALSE)
        ELSE analyze_data(NoAnalysis, loaded.df_cache, table)

\* the columns that find_matching_services reads
matcher_columns ==
    {"invoice_no", "category", "item_description", "unit_price", "subtotal", "tax",
     "total"}

\* line 741: the rows the matcher works on in the present state; none when the loader
\* raises or a column is missing, which the matcher answers with []
snapshot_rows ==
    LET loaded == chatbot_get_quotation_data(df_cache, source)
    IN  IF loaded.raises \/ matcher_columns \ loaded.df.columns # {}
        THEN <<>> ELSE loaded.df.rows

\* whether analyze_data() raises in the present state
analysis_fails == analyze_data(data_analysis_cache, df_cache, source).raises

\* the caches after a handler that called analyze_data ("analysis"), only
\* get_quotation_data ("df") or neither ("none")
caches_after(data) ==
    LET analyzed == analyze_data(data_analysis_cache, df_cache, source)
        loaded == chatbot_get_quotation_data(df_cache, source)
    IN  CASE data = "analysis" ->
                [df_cache |-> analyzed.df_cache,
                 data_analysis_cache |-> analyzed.data_analysis_cache]
          [] data = "df" ->
                [df_cache |-> loaded.df_cache, data_analysis_cache |-> data_analysis_cache]
          [] OTHER ->
                [df_cache |-> df_cache, data_analysis_cache |-> data_analysis_cache]

\* str.lower() on the words that occur in the data; slot values are lower case already
lower_word(w) ==
    CASE w = "3.0HP" -> "3.0hp" [] w = "1.0HP" -> "1.0hp" [] w = "2.5HP" -> "2.5hp"
      [] w = "3HP" -> "3hp" [] w = "2HP" -> "2hp" [] w = "0HP" -> "0hp"
      [] w = "TO" -> "to" [] w = "WALL" -> "wall" [] w = "MOUNTED" -> "mounted"
      [] w = "CHEMICAL" -> "chemical" [] w = "CLEANING" -> "cleaning"
      [] w = "BASIC" -> "basic" [] w = "SERVICING" -> "servicing"
      [] w = "REPLACE" -> "replace" [] w = "TOILET" -> "toilet" [] w = "FLUSH" -> "flush"
      [] w = "SYSTEM" -> "system" [] w = "CLEAR" -> "clear" [] w = "CLOGGED" -> "clogged"
      [] w = "SINK" -> "sink" [] w = "CEILING" -> "ceiling"
      [] OTHER -> w

lower(text) == [i \in 1..Len(text) |-> lower_word(text[i])]

\* `term in description`: the words of term occur consecutively in description
contains(description, term) ==
    \E i \in 1..(Len(description) - Len(term) + 1) :
        SubSeq(description, i, i + Len(term) - 1) = term

\* float(): the numbers that occur, in tenths; other strings raise ValueError
NumberTexts == {"0", "1", "2", "3", "1.0", "2.0", "2.5", "3.0"}

float_tenths(text) ==
    CASE text = "0" -> 0 [] text = "1" -> 10 [] text = "2" -> 20 [] text = "3" -> 30
      [] text = "1.0" -> 10 [] text = "2.0" -> 20 [] text = "2.5" -> 25 [] text = "3.0" -> 30

\* a word `<number>HP` and the number text the pattern (\d+\.?\d*)HP captures from it
HpWords == {"3.0HP", "1.0HP", "2.5HP"}

hp_number(w) ==
    CASE w = "3.0HP" -> "3.0" [] w = "1.0HP" -> "1.0" [] w = "2.5HP" -> "2.5"

hp_word(number) ==
    CASE number = "3.0" -> "3.0HP" [] number = "1.0" -> "1.0HP" [] number = "2.5" -> "2.5HP"

\* f"{requested_hp:.1f}".rstrip('0').rstrip('.') + "HP", by tenths
formatted_hp_word(tenths) ==
    CASE tenths = 0 -> "0HP" [] tenths = 10 -> "1HP" [] tenths = 20 -> "2HP"
      [] tenths = 25 -> "2.5HP" [] tenths = 30 -> "3HP"

\* fuzz.partial_ratio(term, description) for a term that is no substring of the
\* description: the library's values on these strings
PartialRatioTable ==
    { <<<<"toilet">>, "INV004", 33>>, <<<<"leaking">>, "INV003", 29>>,
      <<<<"leaking">>, "INV004", 43>>, <<<<"water_heater">>, "INV003", 33>>,
      <<<<"water_heater">>, "INV004", 25>>, <<<<"broken">>, "INV003", 33>>,
      <<<<"broken">>, "INV004", 33>>, <<<<"wall", "mounted">>, "INV003", 35>>,
      <<<<"wall", "mounted">>, "INV004", 42>>, <<<<"noise">>, "INV003", 60>>,
      <<<<"noise">>, "INV004", 29>>, <<<<"noise">>, "INV001", 40>>,
      <<<<"noise">>, "INV002", 60>>, <<<<"toilet">>, "INV001", 33>>,
      <<<<"toilet">>, "INV002", 33>>, <<<<"leaking">>, "INV001", 86>>,
      <<<<"leaking">>, "INV002", 43>>, <<<<"water_heater">>, "INV001", 42>>,
      <<<<"water_heater">>, "INV002", 33>>, <<<<"broken">>, "INV001", 33>>,
      <<<<"broken">>, "INV002", 33>>, <<<<"3hp">>, "INV001", 67>>,
      <<<<"3hp">>, "INV002", 67>>, <<<<"2hp">>, "INV001", 67>>,
      <<<<"2hp">>, "INV002", 67>>, <<<<"3.0hp">>, "INV002", 80>>,
      <<<<"chemical">>, "INV002", 38>>, <<<<"basic", "servicing">>, "INV001", 50>>,
      <<<<"chemical">>, "INV003", 50>>, <<<<"chemical">>, "INV004", 50>>,
      <<<<"3.0hp">>, "INV003", 20>>, <<<<"3hp">>, "INV003", 33>>,
      <<<<"ceiling">>, "INV001", 57>>, <<<<"ceiling">>, "INV002", 57>>,
      <<<<"ceiling">>, "INV003", 57>>, <<<<"ceiling">>, "INV004", 43>>,
      <<<<"wall", "mounted">>, "INV005", 75>>, <<<<"toilet">>, "INV005", 33>>,
      <<<<"leaking">>, "INV005", 86>>, <<<<"3hp">>, "INV005", 67>> }

partial_ratio(term, row) ==
    IF contains(lower(row.item_description), term) THEN 100
    ELSE IF \E e \in PartialRatioTable : e[1] = term /\ e[2] = row.invoice_no
         THEN (CHOOSE e \in PartialRatioTable : e[1] = term /\ e[2] = row.invoice_no)[3]
         ELSE 0

----------------------------------------------------------------------------
(* Fuzzy service matcher: find_matching_services *)

RECURSIVE SumSeq(_)
SumSeq(q) == IF q = <<>> THEN 0 ELSE Head(q) + SumSeq(Tail(q))

\* the rows of one category, in table order: df[df['category'] == category]
category_rows(df, category) == SelectSeq(df, LAMBDA row : row.category = category)

\* float(info['hp_size']) in tenths
CanFloat(v) == v.type = "int" \/ (v.type = "str" /\ v.str \in NumberTexts)
requested_hp(v) == IF v.type = "int" THEN 10 * v.int ELSE float_tenths(v.str)

\* re.findall(r'(\d+\.?\d*)HP(?!\s+TO)'): positions of the HP words not followed by TO
hp_positions(description) ==
    {i \in 1..Len(description) :
        /\ description[i] \in HpWords
        /\ ~(i < Len(description) /\ lower_word(description[i + 1]) = "to")}

\* first loop: per description, the first HP word within 0.1 of the request
RECURSIVE exact_hp_terms(_, _)
exact_hp_terms(rows, requested) ==
    IF rows = <<>> THEN <<>>
    ELSE LET description == Head(rows).item_description
             found == {i \in hp_positions(description) :
                          float_tenths(hp_number(description[i])) = requested}
         IN  (IF found = {} THEN <<>> ELSE << <<description[Min(found)]>> >>)
             \o exact_hp_terms(Tail(rows), requested)

\* re.search(r'(\d+\.?\d*)HP\s+TO\s+(\d+\.?\d*)HP'): position of the first range
range_positions(description) ==
    {i \in 1..(Len(description) - 2) :
        /\ description[i] \in HpWords
        /\ lower_word(description[i + 1]) = "to"
        /\ description[i + 2] \in HpWords}

\* second loop: per description, its first range when it holds the request,
\* appended unless the term is in the list already
RECURSIVE range_hp_terms(_, _, _)
range_hp_terms(rows, requested, search_terms) ==
    IF rows = <<>> THEN search_terms
    ELSE LET description == Head(rows).item_description
             at == range_positions(description)
             i == Min(at)
             range_term == <<hp_word(hp_number(description[i])), "TO",
                             hp_word(hp_number(description[i + 2]))>>
             holds == /\ at # {}
                      /\ float_tenths(hp_number(description[i])) <= requested
                      /\ requested <= float_tenths(hp_number(description[i + 2]))
             present == \E k \in 1..Len(search_terms) : search_terms[k] = range_term
         IN  range_hp_terms(Tail(rows), requested,
                 IF holds /\ ~present THEN Append(search_terms, range_term)
                 ELSE search_terms)

unit_type_terms(v) ==
    IF ~Truthy(v) THEN <<>>
    ELSE CASE v.str = "wall" -> << <<"wall", "mounted">> >>
           [] v.str = "ceiling" -> << <<"ceiling">> >>
           [] v.str = "cassette" -> << <<"cassette">> >>
           [] OTHER -> <<>>

service_type_terms(v) ==
    IF ~Truthy(v) THEN <<>>
    ELSE CASE v.str = "basic_servicing" -> << <<"basic", "servicing">> >>
           [] v.str = "chemical_cleaning" -> << <<"chemical">> >>
           [] v.str = "gas_topup" -> << <<"gas">> >>
           [] OTHER -> <<>>

hp_size_terms(v, rows, before) ==
    IF ~Truthy(v) THEN before
    ELSE LET requested == requested_hp(v)
             exact == exact_hp_terms(rows, requested)
             exact_match_found == exact # <<>>
             ranged == IF exact_match_found THEN before \o exact
                       ELSE range_hp_terms(rows, requested, before)
         IN  IF ranged = <<>> \/ ~exact_match_found
             THEN Append(ranged, <<formatted_hp_word(requested)>>)
             ELSE ranged

literal_terms(v) == IF Truthy(v) THEN << <<v.str>> >> ELSE <<>>

\* a slot value on which the function raises (caught: the result is [])
raises_in_matcher(info) ==
    \/ \E k \in {"unit_type", "service_type", "brand", "fixture_type", "issue_type"} :
           Truthy(Get(info, k)) /\ Get(info, k).type # "str"
    \/ Truthy(Get(info, "hp_size")) /\ ~CanFloat(Get(info, "hp_size"))

build_search_terms(info, rows) ==
    hp_size_terms(Get(info, "hp_size"), rows,
                  unit_type_terms(Get(info, "unit_type"))
                  \o service_type_terms(Get(info, "service_type")))
    \o literal_terms(Get(info, "brand"))
    \o literal_terms(Get(info, "fixture_type"))
    \o literal_terms(Get(info, "issue_type"))

\* the score of one row as a fraction num / Len(search_terms): 100 per term that
\* is a substring of the description and, when there is none, the partial ratios
exact_score(row, search_terms) ==
    100 * Cardinality({k \in 1..Len(search_terms) :
              contains(lower(row.item_description), lower(search_terms[k]))})

fuzzy_score(row, search_terms) ==
    SumSeq([k \in 1..Len(search_terms) |-> partial_ratio(lower(search_terms[k]), row)])

match_score(row, search_terms) ==
    IF exact_score(row, search_terms) = 0
    THEN fuzzy_score(row, search_terms)
    ELSE exact_score(row, search_terms)

MatchThreshold == 30

Match(row, search_terms) ==
    [invoice_no |-> row.invoice_no, category |-> row.category,
     description |-> row.item_description, unit_price |-> row.unit_price,
     match_score |-> match_score(row, search_terms), terms |-> Len(search_terms)]

\* a variant that puts a match before the earlier matches of the same score
insert_before_equal(sorted, m) ==
    LET before == SelectSeq(sorted, LAMBDA other : other.match_score > m.match_score)
        after == SelectSeq(sorted, LAMBDA other : other.match_score <= m.match_score)
    IN  before \o <<m>> \o after

\* list.sort(key=match_score, reverse=True): stable, highest first
RECURSIVE insert_sorted(_, _)
insert_sorted(sorted, m) ==
    IF sorted = <<>> THEN <<m>>
    ELSE IF Head(sorted).match_score >= m.match_score
         THEN <<Head(sorted)>> \o insert_sorted(Tail(sorted), m)
         ELSE <<m>> \o sorted

RECURSIVE sort_matches(_)
sort_matches(matches) ==
    IF matches = <<>> THEN <<>>
    ELSE insert_sorted(sort_matches(SubSeq(matches, 1, Len(matches) - 1)),
                       matches[Len(matches)])

find_matching_services(info, df) ==
    LET category == Get(info, "category")
        rows == IF category.type = "str" THEN category_rows(df, category.str) ELSE <<>>
    IN  IF ~Truthy(category) \/ rows = <<>> \/ raises_in_matcher(info) THEN <<>>
        ELSE LET search_terms == build_search_terms(info, rows)
             IN  IF search_terms = <<>> THEN <<>>
                 ELSE sort_matches(SelectSeq(
                          [i \in 1..Len(rows) |-> Match(rows[i], search_terms)],
                          LAMBDA m : m.match_score >= MatchThreshold * m.terms))

----------------------------------------------------------------------------
(* Quotation formatter: generate_quotation.  Amounts are in cents.         *)

TaxPercent == 8

\* a variant that cuts the amount off after the second decimal
floor_cents(numerator) == numerator \div 100

\* f"{x:.2f}" of an amount of cents*percent/100: the nearest cent; the amounts
\* formatted, 8/100 and 108/100 of whole cents, are never halfway between two cents
round_cents(numerator) == (numerator + 50) \div 100

Quotation(description, quantity, unit_price, subtotal, tax, total) ==
    [description |-> description, quantity |-> quantity, unit_price |-> unit_price,
     subtotal |-> subtotal, tax |-> tax, total |-> total]

NoQuotation == Quotation(<<>>, 0, 0, 0, 0, 0)

generate_quotation(service, quantity) ==
    LET subtotal == service.unit_price * quantity
    IN  Quotation(service.description, quantity, service.unit_price, subtotal,
                  round_cents(subtotal * TaxPercent),
                  round_cents(subtotal * 100 + subtotal * TaxPercent))

----------------------------------------------------------------------------
(* Texts: a response is its kind, the question it asks (with the value     *)
(* interpolated into it), the quotation block it carries and the matches   *)
(* it lists (invoice and whole-number score).                              *)

Text(kind, question, quotation, matches) ==
    [kind |-> kind, question |-> question, quotation |-> quotation, matches |-> matches]

NoneText == Text("None", NoQuestion, NoQuotation, <<>>)
Canned(kind) == Text(kind, NoQuestion, NoQuotation, <<>>)
Ask(kind, question) == Text(kind, question, NoQuotation, <<>>)

----------------------------------------------------------------------------
(* Messages: a message is the sequence of its words.                        *)

Messages ==
    { <<"reset">>, <<"yes">>, <<"quit">>, <<"2">>, <<"0">>, <<"yes", "price", "ok">> }

\* any(keyword in message_lower for keyword in keywords)
any_in(keywords, message) == \E kw \in keywords : contains(lower(message), kw)

DigitWords == {"0", "1", "2", "3"}

int_of(w) == CASE w = "0" -> 0 [] w = "1" -> 1 [] w = "2" -> 2 [] w = "3" -> 3

\* message.strip().isdigit() and re.match(r'^\s*(\d+)\s*$', message)
is_digits(message) == Len(message) = 1 /\ message[1] \in DigitWords

\* re.match(r'^\d+(\.\d+)?$', message.strip())
is_number(message) == Len(message) = 1 /\ message[1] \in NumberTexts

\* str(float(text)): "2" becomes "2.0"
str_float(text) ==
    CASE text = "0" -> "0.0" [] text = "1" -> "1.0" [] text = "2" -> "2.0"
      [] text = "3" -> "3.0" [] OTHER -> text

----------------------------------------------------------------------------
(* Classification calls to the text-completion service.  A reply is the     *)
(* boolean field of the JSON object the service returns, or the call        *)
(* raises and the fixed vocabulary decides.                                 *)

BoolReplies == {"true", "false", "error"}

is_confirmation_message(message, llm) ==
    CASE llm = "true" -> TRUE
      [] llm = "false" -> FALSE
      [] llm = "error" ->
            any_in({<<"yes">>, <<"confirm">>, <<"accept">>, <<"agree">>, <<"proceed">>,
                    <<"ok">>, <<"okay">>}, message)

is_negative_response(message, llm) ==
    CASE llm = "true" -> TRUE
      [] llm = "false" -> FALSE
      [] llm = "error" ->
            any_in({<<"no">>, <<"nope">>, <<"nah">>, <<"not">>, <<"don't">>, <<"dont">>},
                   message)

info_keywords ==
    {<<"what", "is">>, <<"yes", "price", "ok">>, <<"price">>, <<"cost">>, <<"average">>,
     <<"popular">>, <<"common">>, <<"statistics">>, <<"tell", "me", "about">>, <<"info">>}

quote_keywords ==
    {<<"quote">>, <<"quotation">>, <<"get", "a", "quote">>, <<"want", "to">>,
     <<"need", "to">>, <<"service">>, <<"hire">>, <<"book">>}

\* classify_user_intent; last_question_type is None when no context is passed
classify_user_intent(message, last_question_type, llm_confirmation, llm_negative) ==
    IF any_in(info_keywords, message)
    THEN IF any_in({<<"most", "popular">>, <<"common">>, <<"frequently">>}, message)
         THEN "popular_services_info"
         ELSE IF any_in({<<"price">>, <<"cost">>, <<"yes", "price", "ok">>, <<"average", "cost">>},
                        message)
         THEN "price_info"
         ELSE "information_request"
    ELSE IF any_in(quote_keywords, message) THEN "quotation_request"
    ELSE IF is_confirmation_message(message, llm_confirmation) THEN "confirmation"
    ELSE IF is_negative_response(message, llm_negative) THEN "rejection"
    ELSE IF Truthy(last_question_type) THEN "direct_answer"
    ELSE "generic_request"

InformationIntents == {"information_request", "price_info", "popular_services_info"}

----------------------------------------------------------------------------
(* Entity extractor: handle_direct_response and extract_entities_with_llm. *)
(* A dict of extracted entities is a function from slot names to values.   *)

EmptyDict == [k \in {} |-> PyNone]
Dict(key, value) == [k \in {key} |-> value]
Put(d, key, value) == [k \in DOMAIN d \cup {key} |-> IF k = key THEN value ELSE d[k]]

\* re.search(r'(\d+(\.\d+)?)\s*hp', message_lower): the number text, "" for no match
hp_lower_words == {"3.0hp", "2.5hp", "1.0hp", "3hp", "2hp", "1hp"}

hp_lower_number(w) ==
    CASE w = "3.0hp" -> "3.0" [] w = "2.5hp" -> "2.5" [] w = "1.0hp" -> "1.0"
      [] w = "3hp" -> "3" [] w = "2hp" -> "2" [] w = "1hp" -> "1"

hp_match(message) ==
    LET text == lower(message)
        at == {i \in 1..Len(text) :
                  \/ text[i] \in hp_lower_words
                  \/ text[i] \in NumberTexts /\ i < Len(text) /\ text[i + 1] = "hp"}
    IN  IF at = {} THEN ""
        ELSE IF text[Min(at)] \in hp_lower_words THEN hp_lower_number(text[Min(at)])
        ELSE text[Min(at)]

quantity_words ==
    <<"one", "two", "three", "four", "five", "six", "seven", "eight", "nine", "ten">>

handle_direct_response(message, last_question_type) ==
    LET message_lower == lower(message)
        is_one_of(texts) == message_lower \in texts
        any(terms) == any_in(terms, message)
    IN  CASE last_question_type = "unit_type" ->
               IF is_one_of({<<"wall">>, <<"wall", "mounted">>, <<"wall-mounted">>})
               THEN Dict("unit_type", PyStr("wall"))
               ELSE IF is_one_of({<<"window">>, <<"window", "unit">>, <<"window-unit">>,
                                  <<"window", "type">>})
               THEN Dict("unit_type", PyStr("window"))
               ELSE IF is_one_of({<<"ceiling">>, <<"ceiling", "mounted">>, <<"ceiling-mounted">>})
               THEN Dict("unit_type", PyStr("ceiling"))
               ELSE IF is_one_of({<<"cassette">>, <<"cassette", "type">>, <<"cassette-type">>})
               THEN Dict("unit_type", PyStr("cassette"))
               ELSE IF is_one_of({<<"split">>, <<"split", "unit">>, <<"split-unit">>})
               THEN Dict("unit_type", PyStr("wall"))
               ELSE EmptyDict
          [] last_question_type = "service_type" ->
               IF any({<<"basic">>, <<"general">>, <<"normal">>, <<"regular">>, <<"standard">>})
               THEN Dict("service_type", PyStr("basic_servicing"))
               ELSE IF any({<<"chemical">>, <<"deep">>, <<"thorough">>, <<"complete">>})
               THEN Dict("service_type", PyStr("chemical_cleaning"))
               ELSE IF any({<<"gas">>, <<"top", "up">>, <<"refill">>, <<"recharge">>})
               THEN Dict("service_type", PyStr("gas_topup"))
               ELSE IF any({<<"install">>, <<"installation">>, <<"setup">>, <<"set", "up">>})
               THEN Dict("service_type", PyStr("installation"))
               ELSE IF any({<<"repair">>, <<"fix">>, <<"troubleshoot">>})
               THEN Dict("service_type", PyStr("repair"))
               ELSE EmptyDict
          [] last_question_type = "hp_size" ->
               IF hp_match(message) # "" THEN Dict("hp_size", PyStr(hp_match(message)))
               ELSE IF is_number(message_lower) THEN Dict("hp_size", PyStr(message_lower[1]))
               ELSE EmptyDict
          [] last_question_type = "quantity" ->
               IF is_digits(message_lower) THEN Dict("quantity", PyInt(int_of(message_lower[1])))
               ELSE LET found == {i \in 1..Len(quantity_words) :
                                     contains(message_lower, <<quantity_words[i]>>)}
                    IN  IF found # {} THEN Dict("quantity", PyInt(Min(found)))
                        ELSE EmptyDict
          [] last_question_type = "brand" ->
               LET common_brands == <<"daikin", "panasonic", "samsung", "lg", "mitsubishi",
                                      "hitachi", "toshiba", "sharp", "carrier">>
                   found == {i \in 1..Len(common_brands) :
                                contains(message_lower, <<common_brands[i]>>)}
               IN  IF found # {} THEN Dict("brand", PyStr(common_brands[Min(found)]))
                   ELSE EmptyDict
          [] last_question_type = "fixture_type" ->
               IF any({<<"toilet">>, <<"wc">>, <<"bathroom">>})
               THEN Dict("fixture_type", PyStr("toilet"))
               ELSE IF any({<<"sink">>, <<"basin">>, <<"tap">>, <<"faucet">>})
               THEN Dict("fixture_type", PyStr("sink"))
               ELSE IF any({<<"pipe">>, <<"piping">>, <<"water", "pipe">>, <<"drain">>})
               THEN Dict("fixture_type", PyStr("pipe"))
               ELSE IF any({<<"water", "heater">>, <<"heater">>, <<"hot", "water">>})
               THEN Dict("fixture_type", PyStr("water_heater"))
               ELSE IF any({<<"water", "tank">>, <<"tank">>, <<"storage">>})
               THEN Dict("fixture_type", PyStr("water_tank"))
               ELSE EmptyDict
          [] last_question_type = "issue_type" ->
               IF any({<<"leak">>, <<"leaking">>, <<"water", "leak">>})
               THEN Dict("issue_type", PyStr("leaking"))
               ELSE IF any({<<"clog">>, <<"clogged">>, <<"blocked">>, <<"blockage">>})
               THEN Dict("issue_type", PyStr("clogged"))
               ELSE IF any({<<"broken">>, <<"damaged">>, <<"not", "working">>})
               THEN Dict("issue_type", PyStr("broken"))
               ELSE IF any({<<"not", "cooling">>, <<"no", "cool">>, <<"warm", "air">>})
               THEN Dict("issue_type", PyStr("not_cooling"))
               ELSE IF any({<<"noise">>, <<"noisy">>, <<"loud">>, <<"sound">>})
               THEN Dict("issue_type", PyStr("noise"))
               ELSE EmptyDict
          [] OTHER -> EmptyDict

\* the JSON objects the text-completion service returns to the extraction prompt
ExtractReplies ==
    { EmptyDict,
      [category |-> PyStr("Plumber"), fixture_type |-> PyStr("toilet"),
       issue_type |-> PyStr("leaking"), quantity |-> PyInt(2)],
      [category |-> PyStr("Plumber"), fixture_type |-> PyStr("water_heater"),
       issue_type |-> PyStr("broken")],
      [category |-> PyStr("Aircon Repair"), unit_type |-> PyStr("wall"),
       issue_type |-> PyStr("noise"), quantity |-> PyInt(1)] }

\* a call to the service for extraction: it raises, or it returns a JSON object
ExtractOutcomes ==
    {[raises |-> TRUE, json |-> EmptyDict]}
    \cup {[raises |-> FALSE, json |-> r] : r \in ExtractReplies}

\* the manual keyword rules, applied on top of what the service returned
manual_category(message, extracted_info) ==
    IF any_in({<<"aircon">>}, message) /\ "category" \notin DOMAIN extracted_info
    THEN Put(extracted_info, "category", PyStr("Aircon Servicing"))
    ELSE extracted_info

manual_unit_type(message, extracted_info) ==
    IF any_in({<<"wall", "mounted">>, <<"wall-mounted">>}, message)
    THEN Put(extracted_info, "unit_type", PyStr("wall"))
    ELSE IF any_in({<<"window">>}, message)
    THEN Put(extracted_info, "unit_type", PyStr("window"))
    ELSE IF any_in({<<"cassette">>}, message)
    THEN Put(extracted_info, "unit_type", PyStr("cassette"))
    ELSE IF any_in({<<"ceiling">>}, message)
    THEN Put(extracted_info, "unit_type", PyStr("ceiling"))
    ELSE IF any_in({<<"split">>}, message) /\ any_in({<<"unit">>}, message)
    THEN Put(extracted_info, "unit_type", PyStr("wall"))
    ELSE extracted_info

manual_hp_size(message, last_question_type, extracted_info) ==
    IF hp_match(message) # ""
    THEN Put(extracted_info, "hp_size", PyStr(hp_match(message)))
    ELSE IF is_number(message)
    THEN LET text == message[1]
             num_value == float_tenths(text)
         IN  IF last_question_type = PyStr("hp_size")
             THEN Put(extracted_info, "hp_size", PyStr(str_float(text)))
             ELSE IF last_question_type = PyStr("quantity")
             THEN Put(extracted_info, "quantity", PyInt(num_value \div 10))
             ELSE IF num_value > 0 /\ num_value <= 50
             THEN Put(extracted_info, "hp_size", PyStr(str_float(text)))
             ELSE IF num_value > 0 /\ num_value <= 200
             THEN Put(extracted_info, "quantity", PyInt(num_value \div 10))
             ELSE extracted_info
    ELSE extracted_info

manual_quantity(message, extracted_info) ==
    IF is_digits(message) /\ "hp_size" \notin DOMAIN extracted_info
    THEN Put(extracted_info, "quantity", PyInt(int_of(message[1])))
    ELSE extracted_info

manual_service_type(message, extracted_info) ==
    IF any_in({<<"general", "cleaning">>, <<"basic", "cleaning">>}, message)
    THEN Put(extracted_info, "service_type", PyStr("basic_servicing"))
    ELSE IF any_in({<<"chemical">>, <<"chemical", "wash">>}, message)
    THEN Put(extracted_info, "service_type", PyStr("chemical_cleaning"))
    ELSE IF any_in({<<"gas">>, <<"top", "up">>, <<"refill">>}, message)
    THEN Put(extracted_info, "service_type", PyStr("gas_topup"))
    ELSE extracted_info

manual_fixture_type(message, extracted_info) ==
    IF any_in({<<"toilet">>, <<"wc">>}, message)
    THEN Put(extracted_info, "fixture_type", PyStr("toilet"))
    ELSE IF any_in({<<"sink">>, <<"basin">>}, message)
    THEN Put(extracted_info, "fixture_type", PyStr("sink"))
    ELSE IF any_in({<<"pipe">>, <<"drain">>}, message)
    THEN Put(extracted_info, "fixture_type", PyStr("pipe"))
    ELSE extracted_info

manual_issue_type(message, extracted_info) ==
    IF any_in({<<"leak">>}, message)
    THEN Put(extracted_info, "issue_type", PyStr("leaking"))
    ELSE IF any_in({<<"clog">>, <<"block">>}, message)
    THEN Put(extracted_info, "issue_type", PyStr("clogged"))
    ELSE extracted_info

manual_extraction(message, last_question_type, extracted_info) ==
    manual_issue_type(message,
      manual_fixture_type(message,
        manual_service_type(message,
          manual_quantity(message,
            manual_hp_size(message, last_question_type,
              manual_unit_type(message,
                manual_category(message, extracted_info)))))))

extract_entities_with_llm(message, context, llm) ==
    LET last_question_type == Get(context, "last_question_type")
        direct_response == IF Truthy(last_question_type)
                           THEN handle_direct_response(message, last_question_type.str)
                           ELSE EmptyDict
    IN  IF lower(message) = <<"aircon">>
        THEN Dict("category", PyStr("Aircon Servicing"))
        ELSE IF DOMAIN direct_response # {} THEN direct_response
        ELSE IF llm.raises THEN EmptyDict
        ELSE manual_extraction(message, last_question_type, llm.json)

----------------------------------------------------------------------------
(* The session record and the turn of generate_dynamic_response *)

NoMessage == <<>>

new_context ==
    [category |-> PyNone, unit_type |-> PyNone, service_type |-> PyNone,
     hp_size |-> PyNone, brand |-> PyNone, fixture_type |-> PyNone,
     issue_type |-> PyNone, quantity |-> PyNone,
     chat_history |-> <<>>, last_query |-> NoMessage, last_question_type |-> PyNone,
     information_gathering_stage |-> TRUE, missing_info |-> <<>>,
     last_quotation |-> NoneText, quotation_confirmed |-> FALSE,
     asked_for_another_quotation |-> FALSE]

\* process_message: for key, value in new_entities.items(): if value: context[key] = value
update_context(context, new_entities) ==
    [k \in DOMAIN context |->
        IF k \in DOMAIN new_entities /\ Truthy(new_entities[k])
        THEN new_entities[k] ELSE context[k]]

\* generate_dynamic_response: only keys that are absent or falsy in the context are set
fill_context(context, new_entities) ==
    [k \in DOMAIN context |->
        IF k \in DOMAIN new_entities /\ Truthy(new_entities[k]) /\ ~Truthy(context[k])
        THEN new_entities[k] ELSE context[k]]

QuotationScore == 40

\* a variant that compares the best match with the threshold of the matcher
is_low_confidence_of_matcher(best_match) ==
    best_match.match_score < MatchThreshold * best_match.terms

\* best_match['match_score'] < 40
is_low_confidence(best_match) ==
    best_match.match_score < QuotationScore * best_match.terms

Dynamic(response, has_quotation, needs_more_info, missing_key) ==
    [response |-> response, has_quotation |-> has_quotation,
     needs_more_info |-> needs_more_info, missing_key |-> missing_key]

\* int(match_score)
percent(m) == m.match_score \div m.terms

\* quantity = info.get('quantity', 1), made an int
quotation_quantity(info) ==
    LET quantity == Get(info, "quantity")
    IN  IF quantity.type = "str" /\ quantity.str \in DigitWords THEN int_of(quantity.str)
        ELSE IF quantity.type = "int" THEN quantity.int
        ELSE 1

\* a variant whose answer to a match of low confidence sets neither flag
dynamic_response_unflagged(info, df, llm_resolver) ==
    LET missing_info_result == determine_missing_info_with_llm(info, llm_resolver)
        missing_key == missing_info_result.missing_key
        asked == IF Truthy(missing_key)
                 THEN [info EXCEPT !.last_question_type = missing_key] ELSE info
        category == Render(Get(info, "category"))
    IN  IF ~missing_info_result.has_enough_info
        THEN [context |-> asked, resolved |-> missing_info_result, matches |-> <<>>,
              data |-> "none",
              result |-> Dynamic(Ask("question", missing_info_result.next_question),
                                 FALSE, TRUE, missing_key)]
        ELSE LET matches == find_matching_services(info, df)
                 best_match == matches[1]
                 analyzes == matches = <<>> /\ category \in KnownCategories
             IN  [context |-> asked, resolved |-> missing_info_result,
                  matches |-> matches,
                  data |-> IF analyzes THEN "analysis" ELSE "df",
                  result |->
                    IF analyzes /\ analysis_fails
                    THEN Dynamic(Canned("dynamic_error"), FALSE, TRUE, PyNone)
                    ELSE IF matches = <<>>
                    THEN Dynamic(Ask("no_match",
                                     Question("Could you please provide more specific details?",
                                              category)),
                                 FALSE, TRUE, PyNone)
                    ELSE IF is_low_confidence(best_match)
                    THEN Dynamic(Ask("low_confidence",
                                     Question("Could you provide more specific details about the {category} you need?",
                                              category)),
                                 FALSE, FALSE, PyNone)
                    ELSE Dynamic(Text("quotation", NoQuestion,
                                      generate_quotation(best_match, quotation_quantity(info)),
                                      [i \in 1..(IF Len(matches) < 3 THEN Len(matches) ELSE 3) |->
                                          <<matches[i].invoice_no, percent(matches[i])>>]),
                                 TRUE, FALSE, PyNone)]

\* lines 1028-1175: the context after the call and the dict it returns, for the
\* context as merged; an exception of analyze_data() on the path without a match is
\* answered with the apology of lines 1168-1175
dynamic_response_for(info, df, llm_resolver) ==
    LET missing_info_result == determine_missing_info_with_llm(info, llm_resolver)
        missing_key == missing_info_result.missing_key
        asked == IF Truthy(missing_key)
                 THEN [info EXCEPT !.last_question_type = missing_key] ELSE info
        category == Render(Get(info, "category"))
    IN  IF ~missing_info_result.has_enough_info
        THEN [context |-> asked, resolved |-> missing_info_result, matches |-> <<>>,
              data |-> "none",
              result |-> Dynamic(Ask("question", missing_info_result.next_question),
                                 FALSE, TRUE, missing_key)]
        ELSE LET matches == find_matching_services(info, df)
                 best_match == matches[1]
                 analyzes == matches = <<>> /\ category \in KnownCategories
             IN  [context |-> asked, resolved |-> missing_info_result,
                  matches |-> matches,
                  data |-> IF analyzes THEN "analysis" ELSE "df",
                  result |->
                    IF analyzes /\ analysis_fails
                    THEN Dynamic(Canned("dynamic_error"), FALSE, TRUE, PyNone)
                    ELSE IF matches = <<>>
                    THEN Dynamic(Ask("no_match",
                                     Question("Could you please provide more specific details?",
                                              category)),
                                 FALSE, TRUE, PyNone)
                    ELSE IF is_low_confidence(best_match)
                    THEN Dynamic(Ask("low_confidence",
                                     Question("Could you provide more specific details about the {category} you need?",
                                              category)),
                                 FALSE, TRUE, PyNone)
                    ELSE Dynamic(Text("quotation", NoQuestion,
                                      generate_quotation(best_match, quotation_quantity(info)),
                                      [i \in 1..(IF Len(matches) < 3 THEN Len(matches) ELSE 3) |->
                                          <<matches[i].invoice_no, percent(matches[i])>>]),
                                 TRUE, FALSE, PyNone)]

generate_dynamic_response(query, context, df, llm_extract, llm_resolver) ==
    dynamic_response_for(
        fill_context(context, extract_entities_with_llm(query, context, llm_extract)),
        df, llm_resolver)

----------------------------------------------------------------------------
(* Off-topic gate and information requests *)

OffTopicReplies ==
    {"off_topic",           \* {"is_off_topic": true, "response": "..."}
     "off_topic_null",      \* {"is_off_topic": true, "response": null}
     "on_topic",            \* {"is_off_topic": false, "response": null}
     "error"}               \* the call raises: the message counts as on-topic

\* is_off_topic and off_topic_response, the condition of line 1550
detect_and_handle_off_topic_with_llm(message, llm) ==
    IF classify_user_intent(message, PyNone, "false", "false") \in InformationIntents
    THEN FALSE
    ELSE llm = "off_topic"

\* a or b on Python values
Or(a, b) == IF Truthy(a) THEN a ELSE b

\* lines 402-410: the extractor answers from the message alone and calls neither
\* analyze_data() nor the service
answers_directly(message, context) ==
    \/ lower(message) = <<"aircon">>
    \/ /\ Truthy(context.last_question_type)
       /\ DOMAIN handle_direct_response(message, context.last_question_type.str) # {}

\* the context after the call, the response text and the use made of the data layer;
\* an exception of analyze_data() in get_price_estimate or get_popular_services is
\* answered with the apology of lines 389-395
handle_information_request(message, context, llm_extract) ==
    LET intent == classify_user_intent(message, PyNone, "false", "false")
        entities == extract_entities_with_llm(message, context, llm_extract)
        category == Or(Get(entities, "category"), context.category)
        service_type == Or(Get(entities, "service_type"), context.service_type)
        with_category ==
            IF Truthy(category) /\ (~Truthy(context.category) \/ context.category # category)
            THEN [context EXCEPT !.category = category] ELSE context
        updated ==
            IF Truthy(service_type)
               /\ (~Truthy(context.service_type) \/ context.service_type # service_type)
            THEN [with_category EXCEPT !.service_type = service_type] ELSE with_category
        analyzes == intent \in {"price_info", "popular_services_info"} /\ Truthy(category)
    IN  [context |-> updated,
         data |-> IF analyzes \/ ~answers_directly(message, context)
                  THEN "analysis" ELSE "none",
         response |->
            IF analyzes /\ analysis_fails
            THEN Canned("information_error")
            ELSE IF intent = "price_info" /\ Truthy(category)
            THEN Ask("price_info",
                     Question("Would you like me to provide a specific quotation based on your requirements?",
                              Render(category)))
            ELSE IF intent = "popular_services_info" /\ Truthy(category)
            THEN Ask("popular_services_info", Question("None", Render(category)))
            ELSE IF intent \in {"price_info", "popular_services_info"}
            THEN Ask("information", Question("Which category are you interested in?", ""))
            ELSE Ask("information",
                     Question("Could you please specify which service category you're interested in?", ""))]

\* the service is consulted only when the direct-response step returns nothing and
\* analyze_data() at line 416 returns; else the extractor ends without its reply
extract_outcomes(message, context, service) ==
    IF answers_directly(message, context) \/ analysis_fails
    THEN {[raises |-> TRUE, json |-> EmptyDict]}
    ELSE service

----------------------------------------------------------------------------
(* process_message, one action per branch of the handler *)

SessionIds == {"s1", "s2"}

\* messages kept in the histories of all sessions together
MaxHistory == 3

RECURSIVE history_kept(_)
history_kept(sessions) ==
    IF sessions = {} THEN 0
    ELSE LET session_id == CHOOSE id \in sessions : TRUE
         IN  Len(conversation_context[session_id].chat_history)
             + history_kept(sessions \ {session_id})

Remove(d, key) == [k \in DOMAIN d \ {key} |-> d[k]]

Returned(response, display_quotation, quotation) ==
    [response |-> response, display_quotation |-> display_quotation,
     quotation |-> quotation]

\* the last call: the branch taken, whether the session had a record (line 1451),
\* what the resolver reported and what the matcher returned
NoTurn ==
    [op |-> "none", session_id |-> "", message |-> NoMessage, branch |-> "none",
     existed |-> FALSE,
     resolved |-> MissingInfo(FALSE, PyNone, NoQuestion), matches |-> <<>>]

Turn(session_id, message, branch, resolved, matches) ==
    [op |-> "process_message", session_id |-> session_id, message |-> message,
     branch |-> branch, existed |-> session_id \in DOMAIN conversation_context,
     resolved |-> resolved, matches |-> matches]

Outcome(context, returned, branch, resolved, matches) ==
    [context |-> context, returned |-> returned, branch |-> branch,
     resolved |-> resolved, matches |-> matches, data |-> "none"]

\* the outcome of a branch that used the data layer
WithData(outcome, data) == [outcome EXCEPT !.data = data]

is_reset(message) == lower(message) = <<"reset">>

is_information_request(message) ==
    classify_user_intent(message, PyNone, "false", "false") \in InformationIntents

has_text(text) == text.kind # "None"

append_history(context, message, response) ==
    [context EXCEPT !.chat_history = Append(@, <<message, response>>)]

\* lines 1477-1488
information_request(message, context, service) ==
    IF is_information_request(message)
    THEN { WithData(Outcome(append_history(info_result.context, message,
                                           info_result.response),
                            Returned(info_result.response, FALSE, NoneText),
                            "information", NoTurn.resolved, <<>>),
                    info_result.data) :
            info_result \in { handle_information_request(message, context, llm_extract) :
                                llm_extract \in extract_outcomes(message, context, service) } }
    ELSE {}

\* the condition of the confirmation branch
is_confirmation_turn(context, message, llm) ==
    /\ has_text(context.last_quotation)
    /\ ~context.quotation_confirmed
    /\ is_confirmation_message(message, llm)

\* a variant that marks the quotation confirmed and does not record the follow-up question
confirmation_without_follow_up(message, context) ==
    LET confirmation_response == Canned("confirmation")
    IN  IF ~is_information_request(message)
           /\ \E llm \in BoolReplies : is_confirmation_turn(context, message, llm)
        THEN { Outcome(append_history([context EXCEPT !.quotation_confirmed = TRUE],
                                      message, confirmation_response),
                       Returned(confirmation_response, TRUE, context.last_quotation),
                       "confirmation", NoTurn.resolved, <<>>) }
        ELSE {}

\* lines 1490-1510
confirmation(message, context) ==
    LET confirmation_response == Canned("confirmation")
    IN  IF ~is_information_request(message)
           /\ \E llm \in BoolReplies : is_confirmation_turn(context, message, llm)
        THEN { Outcome(append_history([context EXCEPT !.quotation_confirmed = TRUE,
                                                      !.asked_for_another_quotation = TRUE],
                                      message, confirmation_response),
                       Returned(confirmation_response, TRUE, context.last_quotation),
                       "confirmation", NoTurn.resolved, <<>>) }
        ELSE {}

\* the message reaches the branches after the confirmation check
passes_confirmation(message, context) ==
    /\ ~is_information_request(message)
    /\ \E llm \in BoolReplies : ~is_confirmation_turn(context, message, llm)

is_asking_for_another(context) ==
    context.asked_for_another_quotation /\ context.quotation_confirmed

QuitWords == {<<"quit">>, <<"exit">>, <<"no">>, <<"done">>, <<"finish">>, <<"end">>}

\* lines 1512-1522
quit(message, context) ==
    LET response == Canned("goodbye")
    IN  IF passes_confirmation(message, context) /\ is_asking_for_another(context)
           /\ lower(message) \in QuitWords
        THEN { Outcome(append_history(context, message, response),
                       Returned(response, FALSE, NoneText), "quit", NoTurn.resolved, <<>>) }
        ELSE {}

\* lines 1524-1546: is_affirmative_response(message) or the message is no quit word,
\* which is true of every message that reaches the test
another_quotation(message, context) ==
    LET response == Ask("another",
                        Question("What type of service would you like a quotation for?", ""))
        cleared == [context EXCEPT
                        !.category = PyNone, !.unit_type = PyNone, !.service_type = PyNone,
                        !.hp_size = PyNone, !.brand = PyNone, !.fixture_type = PyNone,
                        !.issue_type = PyNone, !.quantity = PyNone,
                        !.last_quotation = NoneText, !.quotation_confirmed = FALSE,
                        !.asked_for_another_quotation = FALSE,
                        !.information_gathering_stage = TRUE]
    IN  IF passes_confirmation(message, context) /\ is_asking_for_another(context)
           /\ lower(message) \notin QuitWords
        THEN { Outcome(append_history(cleared, message, response),
                       Returned(response, FALSE, NoneText), "another", NoTurn.resolved, <<>>) }
        ELSE {}

\* the message reaches the off-topic gate
reaches_gate(message, context) ==
    passes_confirmation(message, context) /\ ~is_asking_for_another(context)

\* a variant that also forgets the pending question
off_topic_forgetful(message, context) ==
    LET off_topic_response == Canned("off_topic")
    IN  IF reaches_gate(message, context)
           /\ \E llm \in OffTopicReplies : detect_and_handle_off_topic_with_llm(message, llm)
        THEN { Outcome(append_history([context EXCEPT !.last_question_type = PyNone],
                                      message, off_topic_response),
                       Returned(off_topic_response, FALSE, NoneText),
                       "off_topic", NoTurn.resolved, <<>>) }
        ELSE {}

\* lines 1548-1556
off_topic(message, context) ==
    LET off_topic_response == Canned("off_topic")
    IN  IF reaches_gate(message, context)
           /\ \E llm \in OffTopicReplies : detect_and_handle_off_topic_with_llm(message, llm)
        THEN { Outcome(append_history(context, message, off_topic_response),
                       Returned(off_topic_response, FALSE, NoneText),
                       "off_topic", NoTurn.resolved, <<>>) }
        ELSE {}

\* whether classify_user_intent(message, context) can return "direct_answer"
direct_answers(message, context) ==
    { classify_user_intent(message, context.last_question_type, llm_confirmation,
                           llm_negative) = "direct_answer" :
        llm_confirmation \in BoolReplies, llm_negative \in BoolReplies }

\* str.isdigit(): true of the decimal digits and of the superscript two
isdigit(message) == Len(message) = 1 /\ message[1] \in DigitWords \cup {"²"}

\* lines 1560-1563: int() raises ValueError on a text of digits that are not decimal
raises_in_direct_answer(message, context, direct_answer) ==
    /\ direct_answer
    /\ context.information_gathering_stage
    /\ context.last_question_type = PyStr("quantity")
    /\ isdigit(message)
    /\ ~is_digits(message)

\* lines 1558-1573: numeric answers to the quantity and the horsepower question
direct_numeric_answer(message, context, direct_answer) ==
    IF direct_answer /\ context.information_gathering_stage
    THEN IF context.last_question_type = PyStr("quantity") /\ is_digits(message)
         THEN [context EXCEPT !.quantity = PyInt(int_of(message[1]))]
         ELSE IF context.last_question_type = PyStr("hp_size") /\ hp_match(message) # ""
                 /\ Len(message) <= 2
         THEN [context EXCEPT !.hp_size = PyStr(hp_match(message))]
         ELSE context
    ELSE context

confirmation_prompt(response) == [response EXCEPT !.kind = "quotation_with_prompt"]

\* lines 1575-1582: the contexts the turn can reach before generate_dynamic_response
updated_contexts(message, context, service) ==
    { update_context(answered, extract_entities_with_llm(message, answered, llm_extract)) :
        answered \in { direct_numeric_answer(message, context, direct_answer) :
                          direct_answer \in
                            { answer \in direct_answers(message, context) :
                                ~raises_in_direct_answer(message, context, answer) } },
        llm_extract \in extract_outcomes(message, context, service) }

\* lines 1014-1024: the contexts after the merge of generate_dynamic_response
merged_contexts(message, context, service) ==
    { fill_context(updated, extract_entities_with_llm(message, updated, llm_extract)) :
        updated \in updated_contexts(message, context, service),
        llm_extract \in extract_outcomes(message, context, service) }

\* the resolver consults the service only for a category outside its table
resolver_replies(info) ==
    IF Truthy(info.category) /\ Render(info.category) \notin KnownCategories
    THEN ResolverReplies ELSE {"error"}

\* lines 1587-1620: the context after the turn and what is returned
finish_turn(message, dynamic) ==
    LET dynamic_result == dynamic.result
        full_response == confirmation_prompt(dynamic_result.response)
    IN  IF dynamic_result.needs_more_info
        THEN Outcome(append_history(
                        [dynamic.context EXCEPT !.information_gathering_stage = TRUE,
                                                !.last_query = message],
                        message, dynamic_result.response),
                     Returned(dynamic_result.response, FALSE, NoneText),
                     "question", dynamic.resolved, dynamic.matches)
        ELSE Outcome(append_history(
                        [dynamic.context EXCEPT !.information_gathering_stage = FALSE,
                                                !.last_query = message,
                                                !.last_quotation = dynamic_result.response],
                        message, full_response),
                     Returned(full_response, FALSE, dynamic_result.response),
                     "quotation", dynamic.resolved, dynamic.matches)

\* lines 1622-1758: the pandas agent answers, or it raises and the response of
\* generate_dynamic_response is returned without a pair in the history
agent_fallback(message, dynamic) ==
    { Outcome(append_history([dynamic.context EXCEPT !.last_query = message],
                             message, Canned("agent")),
              Returned(Canned("agent"), FALSE, NoneText),
              "agent", dynamic.resolved, dynamic.matches),
      Outcome(dynamic.context, Returned(dynamic.result.response, FALSE, NoneText),
              "agent", dynamic.resolved, dynamic.matches) }

\* lines 1587-1622: the question, the quotation, or else the fallback
ends_turn(message, dynamic) ==
    IF dynamic.result.needs_more_info \/ dynamic.result.has_quotation
    THEN { finish_turn(message, dynamic) }
    ELSE agent_fallback(message, dynamic)

\* lines 1558-1620, for every reply the service can give to the calls made
default_processing(message, context, service) ==
    IF reaches_gate(message, context)
       /\ \E llm \in OffTopicReplies : ~detect_and_handle_off_topic_with_llm(message, llm)
    THEN UNION { UNION { { WithData(done,
                                    IF answers_directly(message, context)
                                    THEN dynamic.data ELSE "analysis") :
                             done \in ends_turn(message, dynamic) } :
                         dynamic \in { dynamic_response_for(info, snapshot_rows,
                                                            llm_resolver) :
                                         llm_resolver \in resolver_replies(info) } } :
                 info \in merged_contexts(message, context, service) }
    ELSE {}

\* a variant in which the exception leaves the handler
error_raised(message, context) == {}

\* lines 1760-1766: an exception of the handler is answered with an apology; the
\* record of the session stays as it was when the exception was raised
error(message, context) ==
    IF /\ reaches_gate(message, context)
       /\ \E llm \in OffTopicReplies : ~detect_and_handle_off_topic_with_llm(message, llm)
       /\ \E answer \in direct_answers(message, context) :
            raises_in_direct_answer(message, context, answer)
    THEN { Outcome(context, Returned(Canned("error"), FALSE, NoneText),
                   "error", NoTurn.resolved, <<>>) }
    ELSE {}

\* what a message other than 'reset' can do to a session record
process_message(message, context, service) ==
    information_request(message, context, service)
    \cup confirmation(message, context)
    \cup quit(message, context)
    \cup another_quotation(message, context)
    \cup off_topic(message, context)
    \cup default_processing(message, context, service)
    \cup error(message, context)

----------------------------------------------------------------------------
(* The service: one action per branch of process_message, and the refresh *)

\* the record of the session: created on the first message that is not a reset
context_of(session_id) ==
    IF session_id \in DOMAIN conversation_context
    THEN conversation_context[session_id] ELSE new_context

\* the quotations confirmed in the session since its record was created
confirmed_of(session_id) ==
    IF session_id \in DOMAIN confirmed THEN confirmed[session_id] ELSE <<>>

\* a message that is not a reset reaches the branches of the handler
Accepts(session_id, message) ==
    /\ session_id \in SessionIds
    /\ ~is_reset(message)
    /\ history_kept(DOMAIN conversation_context) < MaxHistory

Respond(session_id, message, done) ==
    /\ conversation_context' = Put(conversation_context, session_id, done.context)
    /\ result' = done.returned
    /\ turn' = Turn(session_id, message, done.branch, done.resolved, done.matches)
    /\ confirmed' = Put(confirmed, session_id,
                        IF done.branch = "confirmation"
                        THEN Append(confirmed_of(session_id), done.returned.quotation)
                        ELSE confirmed_of(session_id))
    /\ df_cache' = caches_after(done.data).df_cache
    /\ data_analysis_cache' = caches_after(done.data).data_analysis_cache
    /\ UNCHANGED <<probe, source, call>>

\* a variant that empties the eight slots and keeps the record
ResetSlotsOnly(session_id, message) ==
    /\ session_id \in SessionIds
    /\ is_reset(message)
    /\ conversation_context' =
            IF session_id \in DOMAIN conversation_context
            THEN Put(conversation_context, session_id,
                     [k \in DOMAIN new_context |->
                        IF k \in SlotSet THEN PyNone
                        ELSE conversation_context[session_id][k]])
            ELSE conversation_context
    /\ confirmed' = Remove(confirmed, session_id)
    /\ result' = Returned(Canned("reset"), FALSE, NoneText)
    /\ turn' = Turn(session_id, message, "reset", NoTurn.resolved, <<>>)
    /\ UNCHANGED <<probe, df_cache, data_analysis_cache, source, call>>

\* a variant that drops the records of all sessions, as refresh_data does
ResetEverySession(session_id, message) ==
    /\ session_id \in SessionIds
    /\ is_reset(message)
    /\ conversation_context' = EmptyDict
    /\ confirmed' = EmptyDict
    /\ result' = Returned(Canned("reset"), FALSE, NoneText)
    /\ turn' = Turn(session_id, message, "reset", NoTurn.resolved, <<>>)
    /\ UNCHANGED <<probe, df_cache, data_analysis_cache, source, call>>

Reset(session_id, message) ==
    /\ session_id \in SessionIds
    /\ is_reset(message)
    /\ conversation_context' = Remove(conversation_context, session_id)
    /\ confirmed' = Remove(confirmed, session_id)
    /\ result' = Returned(Canned("reset"), FALSE, NoneText)
    /\ turn' = Turn(session_id, message, "reset", NoTurn.resolved, <<>>)
    /\ UNCHANGED <<probe, df_cache, data_analysis_cache, source, call>>

InformationRequest(session_id, message, service) ==
    /\ Accepts(session_id, message)
    /\ \E done \in information_request(message, context_of(session_id), service) :
        Respond(session_id, message, done)

ConfirmQuotation(session_id, message) ==
    /\ Accepts(session_id, message)
    /\ \E done \in confirmation(message, context_of(session_id)) :
        Respond(session_id, message, done)

Quit(session_id, message) ==
    /\ Accepts(session_id, message)
    /\ \E done \in quit(message, context_of(session_id)) :
        Respond(session_id, message, done)

AnotherQuotation(session_id, message) ==
    /\ Accepts(session_id, message)
    /\ \E done \in another_quotation(message, context_of(session_id)) :
        Respond(session_id, message, done)

OffTopic(session_id, message) ==
    /\ Accepts(session_id, message)
    /\ \E done \in off_topic(message, context_of(session_id)) :
        Respond(session_id, message, done)

GatheringInfo(session_id, message, service) ==
    /\ Accepts(session_id, message)
    /\ \E done \in default_processing(message, context_of(session_id), service) :
        Respond(session_id, message, done)

Error(session_id, message) ==
    /\ Accepts(session_id, message)
    /\ \E done \in error(message, context_of(session_id)) :
        Respond(session_id, message, done)

\* refresh_data drops the caches and every session record
RefreshData ==
    LET refreshed == refresh_caches(df_cache, data_analysis_cache, source)
    IN  /\ conversation_context' = EmptyDict
        /\ confirmed' = EmptyDict
        /\ df_cache' = refreshed.df_cache
        /\ data_analysis_cache' = refreshed.data_analysis_cache
        /\ call' = Called("refresh_data", refreshed.raises, NoFrame, refreshed.analysis,
                          refreshed.loads, refreshed.computed)
        /\ result' = Returned(Canned(IF refreshed.raises THEN "refresh_failed"
                                     ELSE "refreshed"), FALSE, NoneText)
        /\ turn' = [NoTurn EXCEPT !.op = "refresh_data"]
        /\ UNCHANGED <<probe, source>>

\* a call of get_quotation_data by any of its callers
GetQuotationData ==
    LET loaded == chatbot_get_quotation_data(df_cache, source)
    IN  /\ df_cache' = loaded.df_cache
        /\ call' = Called("get_quotation_data", loaded.raises, loaded.df, NoAnalysis,
                          loaded.loads, FALSE)
        /\ UNCHANGED <<conversation_context, confirmed, result, turn, probe,
                       data_analysis_cache, source>>

\* a call of analyze_data by any of its callers
AnalyzeData ==
    LET analyzed == analyze_data(data_analysis_cache, df_cache, source)
    IN  /\ df_cache' = analyzed.df_cache
        /\ data_analysis_cache' = analyzed.data_analysis_cache
        /\ call' = Called("analyze_data", analyzed.raises, NoFrame, analyzed.analysis,
                          analyzed.loads, analyzed.computed)
        /\ UNCHANGED <<conversation_context, confirmed, result, turn, probe, source>>

\* the table changes, or the database goes down or comes back
SourceChanges(tables) ==
    /\ source' \in tables \ {source}
    /\ call' = [NoCall EXCEPT !.op = "source_changes"]
    /\ UNCHANGED <<conversation_context, confirmed, result, turn, probe,
                   df_cache, data_analysis_cache>>

----------------------------------------------------------------------------
(* The download path of main.py.  Parsed amounts are in 1/10000 RM.         *)

Parsed(service_description, quantity, unit_price, subtotal, tax, total) ==
    [service_description |-> service_description, quantity |-> quantity,
     unit_price |-> unit_price, subtotal |-> subtotal, tax |-> tax, total |-> total]

\* a line of a text: the label on it ("" for a line without one) and what follows
\* the label: words, a whole number or an amount with two decimals
Line(label, value) == [label |-> label, value |-> value]
Words(words) == [type |-> "str", words |-> words, number |-> 0]
Whole(n) == [type |-> "int", words |-> <<>>, number |-> n]
Money(cents) == [type |-> "money", words |-> <<>>, number |-> cents]
Free(text) == Line("", Words(<<text>>))

\* chatbot_sqlFinal lines 875-886: the lines of the text generate_quotation returns
quotation_lines(quotation) ==
    << Free("SERVICE QUOTATION"),
       Free("------------------"),
       Line("Service Description:", Words(quotation.description)),
       Line("Quantity:", Whole(quotation.quantity)),
       Line("Unit Price (RM):", Money(quotation.unit_price)),
       Line("Subtotal:", Money(quotation.subtotal)),
       Line("Tax (8%):", Money(quotation.tax)),
       Line("Total:", Money(quotation.total)),
       Free(""),
       Free("This quotation is based on our database of similar services."),
       Free("Additional charges may apply depending on specific requirements."),
       Free("") >>

\* chatbot_sqlFinal lines 1076-1087 and 1611-1612: the lines of a response that carries
\* a quotation, as stored in last_quotation and, with the prompt, as returned
lines_of(text) ==
    IF text.kind \in {"quotation", "quotation_with_prompt"}
    THEN << Free("Based on your requirements, I found a matching service:"), Free("") >>
         \o quotation_lines(text.quotation)
         \o << Free(""), Free("This quotation is for"),
               Line("", Words(text.quotation.description \o <<"with a match score of">>)),
               Free("") >>
         \o (IF Len(text.matches) > 1
             THEN << Free(""), Free("Other similar services you might consider:") >>
                  \o [i \in 1..(Len(text.matches) - 1) |->
                        Line("", Words(<<text.matches[i + 1][1], "- RM", "(match score:">>))]
             ELSE <<>>)
         \o (IF text.kind = "quotation_with_prompt"
             THEN << Free(""), Free(""),
                     Free("If you would like to proceed with this quotation, please confirm by saying 'Yes' or 'Confirm'.") >>
             ELSE <<>>)
    ELSE << Line("", Words(<<text.kind, text.question.id, text.question.arg>>)) >>

\* the keys that end a service description
ParserKeys == {"Quantity:", "Unit Price (RM):", "Subtotal:", "Tax (8%):", "Total:"}

\* key in line: the test is case sensitive, so that "Total:" is not found in
\* "Subtotal:"; a key occurs in a line only as its label
key_in(key, line) == line.label = key

\* int(text): a ValueError leaves the value as it was
parsed_int(value, default) == IF value.type = "int" THEN value.number ELSE default

\* a variant that reads the ringgit and drops the decimals
parsed_float_truncated(value, default) ==
    IF value.type = "money" THEN (value.number \div 100) * 10000
    ELSE IF value.type = "int" THEN value.number * 10000
    ELSE default

\* float(text) in 1/10000 RM: a ValueError leaves the value as it was
parsed_float(value, default) ==
    IF value.type = "money" THEN value.number * 100
    ELSE IF value.type = "int" THEN value.number * 10000
    ELSE default

\* main.py lines 112-145: one pass of the loop over the lines
parse_line(state, line) ==
    IF key_in("Service Description:", line)
    THEN [state EXCEPT !.service_desc_started = TRUE,
                       !.service_desc_lines = @ \o line.value.words]
    ELSE IF state.service_desc_started /\ \A key \in ParserKeys : ~key_in(key, line)
    THEN [state EXCEPT !.service_desc_lines = @ \o line.value.words]
    ELSE IF key_in("Quantity:", line)
    THEN [state EXCEPT !.service_desc_started = FALSE,
                       !.quantity = parsed_int(line.value, @)]
    ELSE IF key_in("Unit Price (RM):", line)
    THEN [state EXCEPT !.unit_price = parsed_float(line.value, @)]
    ELSE IF key_in("Subtotal:", line)
    THEN [state EXCEPT !.subtotal = parsed_float(line.value, @)]
    ELSE IF key_in("Tax (8%):", line)
    THEN [state EXCEPT !.tax = parsed_float(line.value, @)]
    ELSE IF key_in("Total:", line)
    THEN [state EXCEPT !.total = parsed_float(line.value, @)]
    ELSE state

RECURSIVE parse_each(_, _)
parse_each(state, lines) ==
    IF lines = <<>> THEN state
    ELSE parse_each(parse_line(state, Head(lines)), Tail(lines))

\* main.py lines 98-167 on the lines of a text
parse_lines(lines) ==
    LET read == parse_each([service_desc_started |-> FALSE, service_desc_lines |-> <<>>,
                            quantity |-> 1, unit_price |-> 0, subtotal |-> 0, tax |-> 0,
                            total |-> 0],
                           lines)
        subtotal == IF read.subtotal = 0 /\ read.unit_price > 0 /\ read.quantity > 0
                    THEN read.unit_price * read.quantity ELSE read.subtotal
        tax == IF read.tax = 0 /\ subtotal > 0 THEN (subtotal * TaxPercent) \div 100
               ELSE read.tax
        total == IF read.total = 0 /\ subtotal > 0 /\ tax > 0 THEN subtotal + tax
                 ELSE read.total
    IN  Parsed(read.service_desc_lines, read.quantity, read.unit_price, subtotal, tax,
               total)

parse_quotation_text(quotation_text) == parse_lines(lines_of(quotation_text))

\* main.py lines 198-202: the text from the heading to the first total with digits
quotation_block(lines) ==
    LET starts == {i \in 1..(Len(lines) - 2) :
                      /\ lines[i] = Free("SERVICE QUOTATION")
                      /\ lines[i + 1] = Free("------------------")
                      /\ key_in("Service Description:", lines[i + 2])}
        start == Min(starts)
        ends == {j \in (start + 2)..Len(lines) :
                    /\ key_in("Total:", lines[j])
                    /\ lines[j].value.type = "money"
                    /\ lines[j].value.number >= 0}
    IN  IF starts = {} \/ ends = {} THEN <<>>
        ELSE SubSeq(lines, start, Min(ends))

\* context['confirmed_quotations'] where the key exists
confirmed_quotations(context) ==
    IF "confirmed_quotations" \in DOMAIN context THEN context["confirmed_quotations"]
    ELSE <<>>

RECURSIVE parse_all(_, _)
parse_all(texts, quotations) ==
    IF texts = <<>> THEN quotations
    ELSE LET quotation_data == parse_quotation_text(Head(texts))
             seen_descriptions == {quotations[i].service_description :
                                      i \in 1..Len(quotations)}
         IN  parse_all(Tail(texts),
                       IF quotation_data.service_description # <<>>
                          /\ quotation_data.service_description \notin seen_descriptions
                       THEN Append(quotations, quotation_data) ELSE quotations)

get_quotation_data(context) ==
    LET quotations == parse_all(confirmed_quotations(context), <<>>)
    IN  IF quotations # <<>> THEN quotations
        ELSE IF "clean_quotation" \in DOMAIN context
        THEN parse_all(<<context["clean_quotation"]>>, <<>>)
        ELSE IF has_text(context.last_quotation)
        THEN LET match == quotation_block(lines_of(context.last_quotation))
                 quotation_data == IF match # <<>> THEN parse_lines(match)
                                   ELSE parse_quotation_text(context.last_quotation)
             IN  IF quotation_data.service_description # <<>>
                 THEN <<quotation_data>> ELSE <<>>
        ELSE <<>>

----------------------------------------------------------------------------
(* The service: any message for any session, and refreshes, in any order *)

NoProbe == [op |-> "none", info |-> EmptyDict, llm |-> "error",
            resolved |-> NoTurn.resolved]

\* the process after main.startup_event, for a table among the given ones
Started(tables) ==
    /\ source \in tables
    /\ df_cache = startup_caches(source).df_cache
    /\ data_analysis_cache = startup_caches(source).data_analysis_cache
    /\ call = NoCall

\* the table as it is while dialogues are served
Available == {DataFrame(required_columns, Database)}

Init ==
    /\ conversation_context = EmptyDict
    /\ confirmed = EmptyDict
    /\ result = Returned(NoneText, FALSE, NoneText)
    /\ turn = NoTurn
    /\ probe = NoProbe
    /\ Started(Available)

Serve(sessions, messages, service) ==
    \/ \E session_id \in sessions, message \in messages :
        \/ Reset(session_id, message)
        \/ InformationRequest(session_id, message, service)
        \/ ConfirmQuotation(session_id, message)
        \/ Quit(session_id, message)
        \/ AnotherQuotation(session_id, message)
        \/ OffTopic(session_id, message)
        \/ GatheringInfo(session_id, message, service)
    \/ RefreshData

\* one client, every message and every reply of the extraction service
Next == Serve({"s1"}, Messages, ExtractOutcomes)

Spec == Init /\ [][Next]_vars

\* two clients, who confirm, quit and ask for prices; the extraction service is down
\* or recognises a leaking toilet
SharedMessages == { <<"reset">>, <<"yes">>, <<"quit">>, <<"yes", "price", "ok">> }

SharedService ==
    { llm \in ExtractOutcomes :
        llm.raises \/ Get(llm.json, "fixture_type") = PyStr("toilet") }

NextShared == Serve(SessionIds, SharedMessages, SharedService)

SpecShared == Init /\ [][NextShared]_vars

\* one client who also objects to the quotation presented
DisputeMessages == SharedMessages \cup { <<"wrong">> }

NextDispute == Serve({"s1"}, DisputeMessages, SharedService)

SpecDispute == Init /\ [][NextDispute]_vars

\* one client who answers the question about another quotation in several ways
FollowUpMessages == SharedMessages \cup { <<"no">>, <<"nope">> }

NextFollowUp == Serve({"s1"}, FollowUpMessages, SharedService)

SpecFollowUp == Init /\ [][NextFollowUp]_vars

----------------------------------------------------------------------------
(* One client while the database goes down and comes back: the client also  *)
(* answers the quantity question with a superscript two; the extraction     *)
(* service is down, recognises a leaking toilet or a broken water heater.   *)

FaultMessages ==
    { <<"reset">>, <<"yes">>, <<"quit">>, <<"²">>, <<"yes", "price", "ok">> }

FaultService ==
    { llm \in ExtractOutcomes :
        \/ llm.raises
        \/ Get(llm.json, "fixture_type") \in {PyStr("toilet"), PyStr("water_heater")} }

\* the connection fails, or the table is read as it is
Outages == {NoFrame, DataFrame(required_columns, Database)}

InitFaults ==
    /\ conversation_context = EmptyDict
    /\ confirmed = EmptyDict
    /\ result = Returned(NoneText, FALSE, NoneText)
    /\ turn = NoTurn
    /\ probe = NoProbe
    /\ Started(Outages)

NextFaults ==
    \/ Serve({"s1"}, FaultMessages, FaultService)
    \/ \E message \in FaultMessages : Error("s1", message)
    \/ SourceChanges(Outages)

SpecFaults == InitFaults /\ [][NextFaults]_vars

----------------------------------------------------------------------------
(* The data layer alone: loads, analyses and refreshes while the table changes *)

InitData ==
    /\ conversation_context = EmptyDict
    /\ confirmed = EmptyDict
    /\ result = Returned(NoneText, FALSE, NoneText)
    /\ turn = NoTurn
    /\ probe = NoProbe
    /\ Started(get_quotation_data_as_df)

NextData ==
    \/ GetQuotationData
    \/ AnalyzeData
    \/ RefreshData
    \/ SourceChanges(get_quotation_data_as_df)

SpecData == InitData /\ [][NextData]_vars

----------------------------------------------------------------------------
(* The resolver alone, on every slot set of the table below *)

SlotSets ==
    [category : {PyNone, PyStr(""), PyStr("Electrician")}
                    \cup {PyStr(category) : category \in KnownCategories},
     unit_type : {PyNone, PyStr("wall")},
     service_type : {PyNone, PyStr("chemical")},
     hp_size : {PyNone, PyStr("2.0")},
     brand : {PyNone, PyStr("daikin")},
     fixture_type : {PyNone, PyStr("toilet")},
     issue_type : {PyNone, PyStr("leaking")},
     quantity : {PyNone, PyInt(0), PyInt(2)}]

InitResolver ==
    /\ conversation_context = EmptyDict
    /\ confirmed = EmptyDict
    /\ result = Returned(NoneText, FALSE, NoneText)
    /\ turn = NoTurn
    /\ probe \in {[NoProbe EXCEPT !.op = "input", !.info = info, !.llm = llm] :
                    info \in SlotSets, llm \in ResolverReplies}
    /\ Started(Available)

Resolve ==
    /\ probe.op = "input"
    /\ probe' = [probe EXCEPT !.op = "resolve",
                              !.resolved = determine_missing_info_with_llm(probe.info,
                                                                           probe.llm)]
    /\ UNCHANGED <<conversation_context, confirmed, result, turn,
                   df_cache, data_analysis_cache, source, call>>

NextResolver == Resolve

SpecResolver == InitResolver /\ [][NextResolver]_vars

----------------------------------------------------------------------------
(* The formatter and the parser alone: a quotation for every service of the *)
(* table at every unit price up to MaxPrice cents, and at RM 100.00, and    *)
(* every quantity up to MaxQuantity; its text is parsed, and the response   *)
(* that carries it is stored in a session record and read by the download   *)
(* path.                                                                    *)

MaxPrice == 30
MaxQuantity == 3

Prices == 0..MaxPrice \cup {10000}

InitFormatter ==
    /\ conversation_context = EmptyDict
    /\ confirmed = EmptyDict
    /\ result = Returned(NoneText, FALSE, NoneText)
    /\ turn = NoTurn
    /\ probe \in {[op |-> "input",
                   service |-> [Match(Database[i], <<>>) EXCEPT !.unit_price = unit_price],
                   quantity |-> quantity, quotation |-> NoQuotation,
                   parsed |-> <<>>, downloaded |-> <<>>] :
                    i \in 1..Len(Database), unit_price \in Prices,
                    quantity \in 0..MaxQuantity}
    /\ Started(Available)

GenerateQuotation ==
    /\ probe.op = "input"
    /\ LET quotation == generate_quotation(probe.service, probe.quantity)
           response == Text("quotation", NoQuestion, quotation,
                            << <<probe.service.invoice_no, 100>> >>)
       IN  probe' = [probe EXCEPT
                        !.op = "generate_quotation",
                        !.quotation = quotation,
                        !.parsed = <<parse_lines(quotation_lines(quotation))>>,
                        !.downloaded =
                            get_quotation_data([new_context EXCEPT
                                                    !.last_quotation = response])]
    /\ UNCHANGED <<conversation_context, confirmed, result, turn,
                   df_cache, data_analysis_cache, source, call>>

NextFormatter == GenerateQuotation

SpecFormatter == InitFormatter /\ [][NextFormatter]_vars

----------------------------------------------------------------------------
(* The matcher alone: every slot set of MatcherSlots on the table, on the   *)
(* extended table and on a table without rows.                              *)

MatcherSlots ==
    [category : {PyNone, PyStr("Electrician"), PyStr("Aircon Servicing"), PyStr("Plumber")},
     unit_type : {PyNone, PyStr("wall"), PyStr("ceiling")},
     service_type : {PyNone, PyStr("chemical_cleaning")},
     hp_size : {PyNone, PyStr("3.0"), PyStr("3HP")},
     fixture_type : {PyNone, PyStr("toilet")},
     issue_type : {PyNone, PyStr("leaking")}]

Snapshots == {Database, Extended, <<>>}

NoMatching ==
    [op |-> "input", info |-> EmptyDict, df |-> <<>>, rows |-> <<>>,
     search_terms |-> <<>>, scored |-> <<>>, matches |-> <<>>]

InitMatcher ==
    /\ conversation_context = EmptyDict
    /\ confirmed = EmptyDict
    /\ result = Returned(NoneText, FALSE, NoneText)
    /\ turn = NoTurn
    /\ probe \in {[NoMatching EXCEPT !.info = info, !.df = df] :
                    info \in MatcherSlots, df \in Snapshots}
    /\ Started(Available)

\* find_matching_services on the slot set and the snapshot; the rows of the category,
\* the search terms and the score of every row are kept beside the result
FindMatchingServices ==
    /\ probe.op = "input"
    /\ LET category == Get(probe.info, "category")
           rows == IF category.type = "str" THEN category_rows(probe.df, category.str)
                   ELSE <<>>
           search_terms == IF raises_in_matcher(probe.info) THEN <<>>
                           ELSE build_search_terms(probe.info, rows)
       IN  probe' = [probe EXCEPT
                        !.op = "find_matching_services",
                        !.rows = rows,
                        !.search_terms = search_terms,
                        !.scored = [i \in 1..Len(rows) |-> Match(rows[i], search_terms)],
                        !.matches = find_matching_services(probe.info, probe.df)]
    /\ UNCHANGED <<conversation_context, confirmed, result, turn,
                   df_cache, data_analysis_cache, source, call>>

NextMatcher == FindMatchingServices

SpecMatcher == InitMatcher /\ [][NextMatcher]_vars

----------------------------------------------------------------------------
(* The extractor alone: one call on a message, a pending question and a reply *)
(* of the extraction service.                                                *)

ExtractorMessages ==
    { <<"aircon">>, <<"aircon", "chemical">>, <<"wall", "mounted">>,
      <<"toilet", "leak">>, <<"2">>, <<"hello">> }

PendingQuestions == {PyNone, PyStr("quantity"), PyStr("unit_type"), PyStr("issue_type")}

NoExtraction ==
    [op |-> "input", message |-> NoMessage, last_question_type |-> PyNone,
     llm |-> [raises |-> TRUE, json |-> EmptyDict],
     direct_response |-> EmptyDict, extracted_info |-> EmptyDict]

InitExtractor ==
    /\ conversation_context = EmptyDict
    /\ confirmed = EmptyDict
    /\ result = Returned(NoneText, FALSE, NoneText)
    /\ turn = NoTurn
    /\ probe \in {[NoExtraction EXCEPT !.message = message,
                                       !.last_question_type = last_question_type,
                                       !.llm = llm] :
                    message \in ExtractorMessages,
                    last_question_type \in PendingQuestions,
                    llm \in ExtractOutcomes}
    /\ Started(Available)

\* extract_entities_with_llm on the message; what the direct-answer step returned is
\* kept beside the result
ExtractEntities ==
    /\ probe.op = "input"
    /\ probe' = [probe EXCEPT
                    !.op = "extract_entities_with_llm",
                    !.direct_response =
                        IF Truthy(probe.last_question_type)
                        THEN handle_direct_response(probe.message,
                                                    probe.last_question_type.str)
                        ELSE EmptyDict,
                    !.extracted_info =
                        extract_entities_with_llm(
                            probe.message,
                            [last_question_type |-> probe.last_question_type],
                            probe.llm)]
    /\ UNCHANGED <<conversation_context, confirmed, result, turn,
                   df_cache, data_analysis_cache, source, call>>

NextExtractor == ExtractEntities

SpecExtractor == InitExtractor /\ [][NextExtractor]_vars

----------------------------------------------------------------------------
(* Two requests for one session in flight at the same time.  main.chat is a  *)
(* coroutine: the event loop runs it until it awaits.  A handler is at       *)
(* "waiting" before it is started, at "called" while process_message waits   *)
(* for the text-completion service, and at "done" after it has returned.     *)

Requests == {1, 2}

ConcurrentMessages == { <<"yes">>, <<"quit">>, <<"nope">> }

\* a variant in which the handler awaits the service and the loop runs other handlers
yields_at_service_calls(pc) == pc = "called"

\* the positions at which a handler gives the event loop back: chat awaits nothing and
\* llm.invoke blocks
yields(pc) == FALSE

\* the event loop can run the handler: no other handler is in the middle of its run
loop_is_free(request) ==
    \A other \in Requests \ {request} :
        probe.pc[other] \in {"waiting", "done"} \/ yields(probe.pc[other])

\* the record after a handler that read `seen` before its call to the service has made
\* its assignments and appended its pairs to the record as it is now
commit(seen, written, current) ==
    [k \in DOMAIN current |->
        IF k = "chat_history"
        THEN current.chat_history
             \o SubSeq(written.chat_history, Len(seen.chat_history) + 1,
                       Len(written.chat_history))
        ELSE IF written[k] # seen[k] THEN written[k] ELSE current[k]]

\* the outcomes of a handler that read `seen` and writes to `current`
writes(message, seen, current) ==
    { [done EXCEPT !.context = commit(seen, done.context, current)] :
        done \in process_message(message, seen, SharedService) }

\* the session is new, or one message has been answered before the two arrive
StartRecords ==
    {EmptyDict}
    \cup { [s1 |-> done.context] :
             done \in process_message(<<"yes">>, new_context, SharedService) }

NoChat ==
    [op |-> "chat", message |-> [request \in Requests |-> NoMessage],
     pc |-> [request \in Requests |-> "waiting"],
     seen |-> [request \in Requests |-> new_context],
     start |-> new_context]

InitConcurrent ==
    /\ Started(Available)
    /\ conversation_context \in StartRecords
    /\ confirmed = EmptyDict
    /\ result = Returned(NoneText, FALSE, NoneText)
    /\ turn = NoTurn
    /\ probe \in { [NoChat EXCEPT !.message = message,
                                  !.start = context_of("s1")] :
                    message \in [Requests -> ConcurrentMessages] }

\* lines 1450-1471: the handler is started, creates the record of a new session and
\* reads the record up to its first call of the service
Enter(request) ==
    /\ probe.pc[request] = "waiting"
    /\ loop_is_free(request)
    /\ conversation_context' = Put(conversation_context, "s1", context_of("s1"))
    /\ probe' = [probe EXCEPT !.pc[request] = "called",
                              !.seen[request] = context_of("s1")]
    /\ UNCHANGED <<confirmed, result, turn, df_cache, data_analysis_cache, source, call>>

\* the service has replied: the handler runs to its end and chat returns the result
Return(request) ==
    /\ probe.pc[request] = "called"
    /\ loop_is_free(request)
    /\ \E done \in writes(probe.message[request], probe.seen[request], context_of("s1")) :
        /\ conversation_context' = Put(conversation_context, "s1", done.context)
        /\ result' = done.returned
        /\ turn' = Turn("s1", probe.message[request], done.branch, done.resolved,
                        done.matches)
        /\ confirmed' = Put(confirmed, "s1",
                            IF done.branch = "confirmation"
                            THEN Append(confirmed_of("s1"), done.returned.quotation)
                            ELSE confirmed_of("s1"))
        /\ df_cache' = caches_after(done.data).df_cache
        /\ data_analysis_cache' = caches_after(done.data).data_analysis_cache
    /\ probe' = [probe EXCEPT !.pc[request] = "done"]
    /\ UNCHANGED <<source, call>>

NextConcurrent == \E request \in Requests : Enter(request) \/ Return(request)

SpecConcurrent == InitConcurrent /\ [][NextConcurrent]_vars

----------------------------------------------------------------------------
(* Properties of the resolver, checked under SpecResolver *)

filled(info, fields) == \A field \in fields : Truthy(info[field])

\* C7: for a slot set of a known category with every required slot of the category
\* filled, the resolver reports complete, names no missing slot and asks no question,
\* whatever the text-completion service would reply.
C7_CompleteSlotSetsResolve ==
    probe.op = "resolve" =>
        LET info == probe.info
        IN  \/ /\ info.category = PyStr("Aircon Servicing")
               /\ filled(info, {"unit_type", "service_type", "hp_size", "quantity"})
            \/ /\ info.category = PyStr("Aircon Installation")
               /\ filled(info, {"unit_type", "hp_size", "brand", "quantity"})
            \/ /\ info.category = PyStr("Aircon Repair")
               /\ filled(info, {"unit_type", "issue_type", "quantity"})
            \/ /\ info.category = PyStr("Plumber")
               /\ filled(info, {"fixture_type", "issue_type", "quantity"})
            => probe.resolved = [has_enough_info |-> TRUE, missing_key |-> PyNone,
                                 next_question |-> NoQuestion]

\* a complete plumbing request, resolved while the service would have said otherwise
C7_Witness ==
    /\ probe.op = "resolve"
    /\ probe.info.category = PyStr("Plumber")
    /\ filled(probe.info, {"fixture_type", "issue_type", "quantity"})
    /\ probe.llm = "not_enough"
    /\ probe.resolved.has_enough_info

\* the slot the claim names for an incomplete slot set, "" when the set is complete
first_empty(info, order) ==
    IF \A i \in 1..Len(order) : Truthy(info[order[i]]) THEN ""
    ELSE order[CHOOSE i \in 1..Len(order) :
                  /\ ~Truthy(info[order[i]])
                  /\ \A j \in 1..(i - 1) : Truthy(info[order[j]])]

expected_missing_slot(info) ==
    CASE ~Truthy(info.category) -> "category"
      [] info.category = PyStr("Aircon Servicing") ->
            first_empty(info, <<"unit_type", "service_type", "hp_size", "quantity">>)
      [] info.category = PyStr("Aircon Installation") ->
            first_empty(info, <<"unit_type", "hp_size", "brand", "quantity">>)
      [] info.category = PyStr("Aircon Repair") ->
            first_empty(info, <<"unit_type", "issue_type", "quantity">>)
      [] info.category = PyStr("Plumber") ->
            first_empty(info, <<"fixture_type", "issue_type", "quantity">>)
      [] OTHER -> ""

\* C8: for a slot set without a category, or of a known category with a required slot
\* empty, the resolver reports incomplete and names one slot, 'category' in the first
\* case and the first empty slot in the category's order in the second; the slot named
\* is the same for every reply of the text-completion service.
C8_MissingSlotByFixedOrder ==
    (probe.op = "resolve" /\ expected_missing_slot(probe.info) # "") =>
        /\ ~probe.resolved.has_enough_info
        /\ probe.resolved.missing_key = PyStr(expected_missing_slot(probe.info))
        /\ \A llm \in ResolverReplies :
                determine_missing_info_with_llm(probe.info, llm) = probe.resolved

\* an air-conditioner servicing request with two empty slots: the earlier one is named
C8_Witness ==
    /\ probe.op = "resolve"
    /\ probe.info.category = PyStr("Aircon Servicing")
    /\ Truthy(probe.info.unit_type)
    /\ ~Truthy(probe.info.service_type)
    /\ ~Truthy(probe.info.quantity)
    /\ probe.llm = "asks_brand"
    /\ probe.resolved.missing_key = PyStr("service_type")

----------------------------------------------------------------------------
(* Properties of the sessions, checked under Spec and SpecShared *)

\* the step is a call of process_message for the session with a message other than
\* 'reset'
IsTurnOf(session_id) ==
    /\ turn'.op = "process_message"
    /\ turn'.session_id = session_id
    /\ turn'.branch # "reset"

\* a quotation has been presented to the session and is not yet confirmed
IsPresented(session_id) ==
    /\ session_id \in DOMAIN conversation_context
    /\ has_text(conversation_context[session_id].last_quotation)
    /\ ~conversation_context[session_id].quotation_confirmed

slots_of(context) == [slot \in SlotSet |-> context[slot]]

\* the message of the step is of confirmation intent: the classifier of line 1491 said
\* so, or it was not consulted and its fixed vocabulary accepts the message
IsConfirmationIntent ==
    \/ turn'.branch = "confirmation"
    \/ turn'.branch = "information" /\ is_confirmation_message(turn'.message, "error")

\* C1: in a session with a presented, unconfirmed quotation a message of confirmation
\* intent moves the session to asking-for-another and returns display_quotation = true
\* with the stored quotation, and the turn changes no slot and not the stored quotation.
C1_ConfirmationMovesOn ==
    [][\A session_id \in SessionIds :
        (IsPresented(session_id) /\ IsTurnOf(session_id) /\ IsConfirmationIntent) =>
            LET before == conversation_context[session_id]
                after == conversation_context'[session_id]
            IN  /\ after.quotation_confirmed
                /\ after.asked_for_another_quotation
                /\ result'.display_quotation
                /\ result'.quotation = before.last_quotation
                /\ slots_of(after) = slots_of(before)
                /\ after.last_quotation = before.last_quotation]_vars

\* C2: in every session the confirmed-quotations list of the record has one entry for
\* each confirmation turn since the record was created.
C2_ConfirmedListGrows ==
    \A session_id \in DOMAIN conversation_context :
        confirmed_quotations(conversation_context[session_id]) = confirmed_of(session_id)

\* C3: every quotation confirmed in a session since its record was created is among
\* the quotations the download endpoint assembles from the record.
C3_ConfirmedStayDownloadable ==
    \A session_id \in DOMAIN conversation_context :
        LET downloaded == get_quotation_data(conversation_context[session_id])
        IN  \A i \in 1..Len(confirmed_of(session_id)) :
                \E j \in 1..Len(downloaded) :
                    downloaded[j] = parse_quotation_text(confirmed_of(session_id)[i])

\* C4: a gathering-info turn leaves every slot that held a non-empty value before the
\* turn at that value.
C4_MergeKeepsFilledSlots ==
    [][\A session_id \in DOMAIN conversation_context :
        (IsTurnOf(session_id) /\ turn'.branch \in {"question", "quotation"}) =>
            \A slot \in SlotSet :
                Truthy(conversation_context[session_id][slot]) =>
                    conversation_context'[session_id][slot]
                        = conversation_context[session_id][slot]]_vars

\* C5: a slot that holds a non-empty value holds a non-empty value after every message
\* to the session, except the message that starts a new quotation and a reset.
C5_FilledSlotsStayFilled ==
    [][\A session_id \in DOMAIN conversation_context :
        (IsTurnOf(session_id) /\ turn'.branch # "another") =>
            \A slot \in SlotSet :
                Truthy(conversation_context[session_id][slot]) =>
                    Truthy(conversation_context'[session_id][slot])]_vars

\* the resolver reported the slots complete and the best match scores 40 or more
IsGoodMatch(turned) ==
    /\ turned.resolved.has_enough_info
    /\ turned.matches # <<>>
    /\ turned.matches[1].match_score >= 40 * turned.matches[1].terms

\* C6: a turn of default processing stores and presents a quotation only if the
\* resolver reported the slots complete and the best match scores 40 or more; otherwise
\* it returns a question, stores no quotation and the session stays in gathering-info.
C6_QuotationOnlyForGoodMatch ==
    [][\A session_id \in SessionIds :
        (IsTurnOf(session_id) /\ turn'.branch \in {"question", "quotation"}) =>
            LET before == context_of(session_id)
                after == conversation_context'[session_id]
            IN  /\ (has_text(result'.quotation)
                    \/ after.last_quotation # before.last_quotation
                    \/ ~after.information_gathering_stage) => IsGoodMatch(turn')
                /\ ~IsGoodMatch(turn') =>
                        /\ result'.response.kind \in {"question", "no_match", "low_confidence"}
                        /\ ~has_text(result'.quotation)
                        /\ ~result'.display_quotation
                        /\ after.last_quotation = before.last_quotation
                        /\ after.information_gathering_stage]_vars

\* a complete request whose best match scores under 40 was answered with a question
C6_Witness ==
    /\ turn.branch = "question"
    /\ turn.resolved.has_enough_info
    /\ turn.matches # <<>>
    /\ turn.matches[1].match_score < 40 * turn.matches[1].terms
    /\ result.response.kind = "low_confidence"
    /\ ~has_text(conversation_context[turn.session_id].last_quotation)

\* C9: the message that follows a reset of a session is processed as the first message
\* of a new session: the record and the result are those the message yields from the
\* initial record, with all eight slots empty, no history, no stored quotation and no
\* pending question.
C9_ResetStartsAfresh ==
    [][(turn.op = "process_message" /\ turn.branch = "reset"
        /\ IsTurnOf(turn.session_id)) =>
            /\ \A slot \in SlotSet : new_context[slot] = PyNone
            /\ new_context.chat_history = <<>>
            /\ ~has_text(new_context.last_quotation)
            /\ new_context.last_question_type = PyNone
            /\ \E done \in process_message(turn'.message, new_context, ExtractOutcomes) :
                /\ conversation_context'[turn.session_id] = done.context
                /\ result' = done.returned]_vars

\* a session with a record has been reset
C9_Witness ==
    /\ turn.op = "process_message"
    /\ turn.branch = "reset"
    /\ turn.existed
    /\ turn.session_id \notin DOMAIN conversation_context

\* C10: a call of process_message for one session, a reset included, leaves the record
\* of every other session as it was.
C10_OtherSessionsUnchanged ==
    [][\A session_id \in SessionIds :
        (turn'.op = "process_message" /\ turn'.session_id # session_id) =>
            /\ session_id \in DOMAIN conversation_context'
                    <=> session_id \in DOMAIN conversation_context
            /\ session_id \in DOMAIN conversation_context =>
                    conversation_context'[session_id] = conversation_context[session_id]]_vars

\* one session was reset while the other holds slots, history and a stored quotation
C10_Witness ==
    /\ turn.op = "process_message"
    /\ turn.session_id = "s1"
    /\ turn.branch = "reset"
    /\ turn.existed
    /\ "s2" \in DOMAIN conversation_context
    /\ has_text(conversation_context["s2"].last_quotation)
    /\ Truthy(conversation_context["s2"].category)

\* C11: a session record is destroyed only by a reset for its session id; a data
\* refresh leaves every existing record, with its slots, history and stored quotation,
\* as it was.
C11_OnlyResetDestroys ==
    [][\A session_id \in DOMAIN conversation_context :
        \/ /\ turn'.op = "process_message"
           /\ turn'.session_id = session_id
           /\ turn'.branch = "reset"
        \/ /\ session_id \in DOMAIN conversation_context'
           /\ turn'.op = "refresh_data" =>
                conversation_context'[session_id] = conversation_context[session_id]]_vars

----------------------------------------------------------------------------
(* Properties of the data layer, checked under SpecData *)

\* a frame that is not empty and has the nine required columns
IsValidSnapshot(df) ==
    /\ df.type = "DataFrame"
    /\ df.rows # <<>>
    /\ required_columns \subseteq df.columns

\* C12: every call of the snapshot loader raises or returns a snapshot that is not
\* empty and has the nine required columns, also when an earlier load failed on an
\* empty or incomplete table.
C12_LoaderReturnsValidSnapshot ==
    (call.op = "get_quotation_data" /\ ~call.raised) => IsValidSnapshot(call.df)

\* C19: a call of analyze_data while an analysis is cached returns that analysis and
\* neither reads the table nor computes; an analysis that is returned or cached is the
\* analysis of the snapshot in the cache, which a refresh has loaded from the table as
\* it is at the refresh.
C19_AnalysisCachedAndFresh ==
    [][/\ (call'.op = "analyze_data" /\ data_analysis_cache # NoAnalysis) =>
            /\ ~call'.raised
            /\ call'.analysis = data_analysis_cache
            /\ call'.loads = 0
            /\ ~call'.computed
            /\ UNCHANGED <<df_cache, data_analysis_cache>>
       /\ (call'.op \in {"analyze_data", "refresh_data"} /\ ~call'.raised) =>
            /\ call'.analysis = analysis_of(df_cache')
            /\ data_analysis_cache' = call'.analysis
       /\ (call'.op = "refresh_data" /\ call' # call) =>
            /\ df_cache' \in {NoFrame, source}
            /\ ~call'.raised => df_cache' = source /\ call'.computed /\ call'.loads = 1
       /\ data_analysis_cache' # NoAnalysis =>
            data_analysis_cache' = analysis_of(df_cache')]_vars

\* after a refresh that followed a change of the table, the cached analysis is returned
\* without a load, and it is the analysis of the changed table
C19_Witness ==
    /\ call.op = "analyze_data"
    /\ ~call.raised
    /\ call.loads = 0
    /\ ~call.computed
    /\ df_cache = DataFrame(required_columns, Repriced)
    /\ call.analysis = analysis_of(DataFrame(required_columns, Repriced))
    /\ turn.op = "refresh_data"

----------------------------------------------------------------------------
(* Properties of a dialogue under outages, checked under SpecFaults *)

\* what process_message returns and leaves behind: the three keys of the answer and a
\* complete session record
IsAnswer(done) ==
    /\ has_text(done.returned.response)
    /\ done.returned.display_quotation \in BOOLEAN
    /\ done.returned.quotation.kind \in {"None", "quotation"}
    /\ DOMAIN done.context = DOMAIN new_context

C14_EveryTurnAppendsOnePair ==
    [][\A session_id \in SessionIds :
        (IsTurnOf(session_id) /\ source' = source)
        => conversation_context'[session_id].chat_history
           = Append(context_of(session_id).chat_history,
                    <<turn'.message, result'.response>>)]_vars

----------------------------------------------------------------------------
(* Properties of the formatter and the parser, checked under SpecFormatter *)

\* C15: for every match with a unit price of p cents and every quantity q >= 1, the
\* quotation shows the subtotal p*q, as tax the 8% of the subtotal to the nearest cent
\* and as total the sum of the subtotal and the tax shown; it has no line for labor.
\* At RM 100.00 and quantity 2 these are 200.00, 16.00 and 216.00.
C15_SubtotalTaxTotal ==
    (probe.op = "generate_quotation" /\ probe.quantity >= 1)
    => LET quotation == probe.quotation
       IN  /\ quotation.subtotal = probe.service.unit_price * probe.quantity
           /\ 100 * quotation.tax - 50 < TaxPercent * quotation.subtotal
           /\ TaxPercent * quotation.subtotal < 100 * quotation.tax + 50
           /\ quotation.total = quotation.subtotal + quotation.tax
           /\ {quotation_lines(quotation)[i].label : i \in 1..12}
                = {"", "Service Description:", "Quantity:", "Unit Price (RM):",
                   "Subtotal:", "Tax (8%):", "Total:"}
           /\ (probe.service.unit_price = 10000 /\ probe.quantity = 2)
              => /\ quotation.subtotal = 20000
                 /\ quotation.tax = 1600
                 /\ quotation.total = 21600

\* the quotation for two units at RM 100.00
C15_Witness ==
    /\ probe.op = "generate_quotation"
    /\ probe.service.unit_price = 10000
    /\ probe.quantity = 2
    /\ probe.quotation.subtotal = 20000
    /\ probe.quotation.tax = 1600
    /\ probe.quotation.total = 21600

\* what the parser returned is, to the cent, what the quotation shows
IsRecovered(quotation_data, quotation) ==
    /\ quotation_data.service_description = quotation.description
    /\ quotation_data.quantity = quotation.quantity
    /\ round_cents(quotation_data.unit_price) = quotation.unit_price
    /\ round_cents(quotation_data.subtotal) = quotation.subtotal
    /\ round_cents(quotation_data.tax) = quotation.tax
    /\ round_cents(quotation_data.total) = quotation.total

\* C16: for every match and quantity, parse_quotation_text on the text of
\* generate_quotation returns the description, the quantity and, to the cent, the unit
\* price, subtotal, tax and total of the quotation; the download path, which reads the
\* response stored in last_quotation, returns exactly one quotation with the same
\* values.
C16_ParserRecoversQuotation ==
    probe.op = "generate_quotation"
    => /\ Len(probe.parsed) = 1
       /\ IsRecovered(probe.parsed[1], probe.quotation)
       /\ Len(probe.downloaded) = 1
       /\ IsRecovered(probe.downloaded[1], probe.quotation)

\* a quotation with amounts that are no whole ringgit, read back from the stored text
C16_Witness ==
    /\ probe.op = "generate_quotation"
    /\ probe.service.unit_price = 29
    /\ probe.quantity = 3
    /\ Len(probe.downloaded) = 1
    /\ probe.downloaded[1].subtotal = 8700
    /\ probe.downloaded[1].tax = 700
    /\ probe.downloaded[1].total = 9400
    /\ probe.downloaded[1].service_description = probe.service.description

----------------------------------------------------------------------------
(* Properties of the matcher, checked under SpecMatcher *)

\* the place of a row in the snapshot
row_order(df, invoice_no) == Min({i \in 1..Len(df) : df[i].invoice_no = invoice_no})

\* the rows of the category that qualify: they have a score of at least 30
qualifying(rows, search_terms) ==
    {i \in 1..Len(rows) :
        /\ search_terms # <<>>
        /\ match_score(rows[i], search_terms) >= MatchThreshold * Len(search_terms)}

exact_hits(row, search_terms) ==
    {k \in 1..Len(search_terms) :
        contains(lower(row.item_description), lower(search_terms[k]))}

\* C18: for the search terms of a slot set and two descriptions of which the second
\* contains every term the first contains and at least one more, and which are equally
\* close to every term that neither contains, the score of the second is at least the
\* score of the first; also when the first contains no term at all.
C18_ScoreMonotoneInExactHits ==
    probe.op = "find_matching_services"
    => \A i, j \in 1..Len(probe.rows) :
        LET fewer == exact_hits(probe.rows[i], probe.search_terms)
            more == exact_hits(probe.rows[j], probe.search_terms)
        IN  (/\ fewer \subseteq more
             /\ fewer # more
             /\ \A k \in (1..Len(probe.search_terms)) \ more :
                    partial_ratio(lower(probe.search_terms[k]), probe.rows[i])
                    = partial_ratio(lower(probe.search_terms[k]), probe.rows[j]))
            => probe.scored[i].match_score <= probe.scored[j].match_score

\* the message of the step objects to the quotation
IsDisputeIntent == any_in({<<"wrong">>}, turn'.message)

\* C20: in a session with a presented, unconfirmed quotation a message of dispute
\* intent moves the session to a state of its own: the turn does not confirm the
\* quotation, is not processed as a turn of the default path (question or quotation),
\* and changes the record in more than the chat history.
C20_DisputeMovesToDisputeHandling ==
    [][\A session_id \in SessionIds :
        (/\ IsPresented(session_id)
         /\ IsTurnOf(session_id)
         /\ session_id \in DOMAIN conversation_context'
         /\ IsDisputeIntent) =>
            LET before == conversation_context[session_id]
                after == conversation_context'[session_id]
            IN  /\ ~after.quotation_confirmed
                /\ turn'.branch \notin {"question", "quotation"}
                /\ [after EXCEPT !.chat_history = before.chat_history] # before]_vars

\* the quotation of the session is confirmed and the question about another one asked
IsAskingForAnother(session_id) ==
    /\ session_id \in DOMAIN conversation_context
    /\ is_asking_for_another(conversation_context[session_id])

\* the message of the step is a negative reply by the vocabulary of is_negative_response
IsNegativeIntent ==
    any_in({<<"no">>, <<"nope">>, <<"nah">>, <<"not">>, <<"don't">>, <<"dont">>},
           turn'.message)

\* C21: in the asking-for-another state every message of negative intent is answered
\* with the closing message, leaves the slots and the stored quotation as they were,
\* and leaves the session in a state other than asking-for-another.
C21_NegativeEndsSession ==
    [][\A session_id \in SessionIds :
        (IsAskingForAnother(session_id) /\ IsTurnOf(session_id) /\ IsNegativeIntent) =>
            LET before == conversation_context[session_id]
                after == conversation_context'[session_id]
            IN  /\ result'.response = Canned("goodbye")
                /\ slots_of(after) = slots_of(before)
                /\ after.last_quotation = before.last_quotation
                /\ ~is_asking_for_another(after)]_vars

\* the message of the step is an affirmative reply by the vocabulary of
\* is_affirmative_response
IsAffirmativeIntent ==
    any_in({<<"yes">>, <<"yeah">>, <<"yep">>, <<"sure">>, <<"ok">>, <<"okay">>},
           turn'.message)

\* C22: in the asking-for-another state a message of affirmative intent empties the
\* eight slots and the stored quotation, is answered with the question for the type of
\* service, appends the turn to the history and changes nothing else of it, and leaves
\* the quotations confirmed before among those the download endpoint assembles.
C22_AffirmativeStartsAnother ==
    [][\A session_id \in SessionIds :
        (IsAskingForAnother(session_id) /\ IsTurnOf(session_id) /\ IsAffirmativeIntent) =>
            LET before == conversation_context[session_id]
                after == conversation_context'[session_id]
                kept == get_quotation_data(after)
            IN  /\ \A slot \in SlotSet : after[slot] = PyNone
                /\ after.last_quotation = NoneText
                /\ ~is_asking_for_another(after)
                /\ result'.response.kind = "another"
                /\ after.chat_history
                        = Append(before.chat_history, <<turn'.message, result'.response>>)
                /\ \A i \in 1..Len(confirmed_of(session_id)) :
                        \E j \in 1..Len(kept) :
                            kept[j] = parse_quotation_text(confirmed_of(session_id)[i])]_vars

\* C23: a turn that the off-topic gate of line 1550 answers returns the redirect
\* response with no quotation, appends one pair to the history, and leaves the eight
\* slots, the pending question, the stored quotation and the two confirmation flags of
\* the session as they were.
C23_OffTopicOnlyGrowsHistory ==
    [][\A session_id \in SessionIds :
        (IsTurnOf(session_id) /\ turn'.branch = "off_topic") =>
            LET before == context_of(session_id)
                after == conversation_context'[session_id]
            IN  /\ result' = Returned(Canned("off_topic"), FALSE, NoneText)
                /\ slots_of(after) = slots_of(before)
                /\ after.last_question_type = before.last_question_type
                /\ after.last_quotation = before.last_quotation
                /\ after.quotation_confirmed = before.quotation_confirmed
                /\ after.asked_for_another_quotation = before.asked_for_another_quotation
                /\ after.chat_history
                        = Append(before.chat_history, <<turn'.message, result'.response>>)]_vars

\* an off-topic turn in a session with filled slots, a pending question and a quotation
C23_Witness ==
    /\ turn.op = "process_message"
    /\ turn.branch = "off_topic"
    /\ turn.existed
    /\ Truthy(conversation_context[turn.session_id].category)
    /\ Truthy(conversation_context[turn.session_id].last_question_type)
    /\ has_text(conversation_context[turn.session_id].last_quotation)

\* C24: when a question is pending in a session that gathers information and the
\* message is in the direct-answer vocabulary of the question, every turn with the
\* message, whatever the services reply, fills the slot of the question with the value
\* the vocabulary maps the message to and leaves the other slots as they were.
C24_DirectAnswerFillsItsSlot ==
    [][\A session_id \in DOMAIN conversation_context :
        LET before == conversation_context[session_id]
            after == conversation_context'[session_id]
            direct_response ==
                IF Truthy(before.last_question_type)
                THEN handle_direct_response(turn'.message, before.last_question_type.str)
                ELSE EmptyDict
        IN  (/\ IsTurnOf(session_id)
             /\ ~has_text(before.last_quotation)
             /\ ~is_asking_for_another(before)
             /\ DOMAIN direct_response # {}) =>
                \A slot \in SlotSet :
                    after[slot] = IF slot \in DOMAIN direct_response
                                  THEN direct_response[slot] ELSE before[slot]]_vars

\* the slots produced before the manual keyword rules run: by the direct-answer step,
\* or else by the reply of the extraction service
earlier_slots ==
    IF lower(probe.message) = <<"aircon">> THEN EmptyDict
    ELSE IF DOMAIN probe.direct_response # {} THEN probe.direct_response
    ELSE IF probe.llm.raises THEN EmptyDict
    ELSE probe.llm.json

\* C25: every slot that the direct-answer step or the reply of the extraction service
\* produced has, in the result of the extractor, the value it was produced with; the
\* manual keyword rules only add slots.
C25_ManualRulesOnlyAdd ==
    probe.op = "extract_entities_with_llm"
    => \A slot \in DOMAIN earlier_slots :
            /\ slot \in DOMAIN probe.extracted_info
            /\ probe.extracted_info[slot] = earlier_slots[slot]

\* C26: after the closing message has answered a negative reply to the question about
\* another quotation, every further message other than a reset is handled by the
\* information branch or by default processing (off-topic gate, extraction, resolver),
\* and empties neither a filled slot nor the stored quotation.
C26_EndedSessionFallsThrough ==
    (turn.op = "process_message" /\ turn.branch = "quit") =>
        LET context == context_of(turn.session_id)
        IN  \A message \in FollowUpMessages \ {<<"reset">>} :
                \A done \in process_message(message, context, SharedService) :
                    /\ done.branch \in {"information", "off_topic", "question", "quotation"}
                    /\ \A slot \in SlotSet :
                            Truthy(context[slot]) => Truthy(done.context[slot])
                    /\ has_text(context.last_quotation)
                            => has_text(done.context.last_quotation)

\* C27: whenever the most recent response to a session is a question for a slot, the
\* last_question_type of the session names that slot: after a question of the resolver
\* it is the missing slot, and after the question that starts another quotation, which
\* asks for the category, it names no slot asked for during the previous quotation.
C27_LastQuestionNamesSlotAsked ==
    \A session_id \in DOMAIN conversation_context :
        LET context == conversation_context[session_id]
        IN  /\ (/\ turn.op = "process_message"
                 /\ turn.session_id = session_id
                 /\ turn.branch = "question"
                 /\ Truthy(turn.resolved.missing_key))
                => context.last_question_type = turn.resolved.missing_key
            /\ is_asking_for_another(context)
                => \A message \in FaultMessages \ {<<"reset">>} :
                     \A done \in another_quotation(message, context) :
                        done.context.last_question_type \in {PyNone, PyStr("category")}

\* the records a session can have after the two messages were handled one after the
\* other, in either order
sequential(first, second, start) ==
    UNION { { after.context : after \in process_message(second, between.context,
                                                        SharedService) } :
            between \in process_message(first, start, SharedService) }

\* the records the session can have after two handlers that both read the record
\* before either has written
overlapped(first, second, start) ==
    UNION { { after.context : after \in writes(second, start, between.context) } :
            between \in writes(first, start, start) }

\* the records the event loop allows after the two messages
schedules(first, second, start) ==
    sequential(first, second, start) \cup sequential(second, first, start)
    \cup IF yields("called")
         THEN overlapped(first, second, start) \cup overlapped(second, first, start)
         ELSE {}

\* C28 as stated: for two requests of one session that arrive together some schedule of
\* their steps ends with slots or a history that neither sequential order produces.
C28_SomeScheduleLosesAnUpdate ==
    probe.op = "chat" =>
        \E final \in schedules(probe.message[1], probe.message[2], probe.start) :
            final \notin sequential(probe.message[1], probe.message[2], probe.start)
                         \cup sequential(probe.message[2], probe.message[1], probe.start)

\* C28 as amended: two requests of one session that arrive together are handled one
\* after the other; when both have returned, the slots and the history of the session
\* are those of one of the two sequential orders.
C28_RequestsAreSerialised ==
    (\A request \in Requests : probe.pc[request] = "done") =>
        LET final == conversation_context["s1"]
            in_order == sequential(probe.message[1], probe.message[2], probe.start)
                        \cup sequential(probe.message[2], probe.message[1], probe.start)
        IN  \E serial \in in_order :
                /\ slots_of(final) = slots_of(serial)
                /\ final.chat_history = serial.chat_history

\* two confirmations of one presented quotation have both returned: the first was
\* confirmed, the second started another quotation
C28_Witness ==
    /\ \A request \in Requests : probe.pc[request] = "done"
    /\ has_text(probe.start.last_quotation)
    /\ probe.message[1] = <<"yes">>
    /\ probe.message[2] = <<"yes">>
    /\ Len(conversation_context["s1"].chat_history) = Len(probe.start.chat_history) + 2
    /\ turn.branch = "another"

\* the kinds of the responses in the history of a session, oldest first
response_kinds(context) ==
    [i \in 1..Len(context.chat_history) |-> context.chat_history[i][2].kind]

\* C29: in every session record quotation_confirmed and asked_for_another_quotation are
\* equal, and a confirmed record has a stored quotation; a result with
\* display_quotation = true carries a quotation; and between two confirmations in the
\* history of a session a quotation was presented.
C29_ConfirmationFlagsAgree ==
    /\ \A session_id \in DOMAIN conversation_context :
        LET context == conversation_context[session_id]
            kinds == response_kinds(context)
        IN  /\ context.quotation_confirmed = context.asked_for_another_quotation
            /\ context.quotation_confirmed => has_text(context.last_quotation)
            /\ \A i, j \in 1..Len(kinds) :
                    (i < j /\ kinds[i] = "confirmation" /\ kinds[j] = "confirmation")
                    => \E k \in (i + 1)..(j - 1) : kinds[k] = "quotation_with_prompt"
    /\ result.display_quotation => has_text(result.quotation)

\* a quotation has just been confirmed and is shown to the client
C29_Witness ==
    /\ turn.op = "process_message"
    /\ turn.branch = "confirmation"
    /\ result.display_quotation
    /\ conversation_context[turn.session_id].quotation_confirmed
    /\ conversation_context[turn.session_id].asked_for_another_quotation
    /\ has_text(conversation_context[turn.session_id].last_quotation)

\* C30: every result of generate_dynamic_response a turn can get has exactly one of
\* needs_more_info and has_quotation set; a turn of default processing ends with a
\* question and no quotation, or with the quotation stored in the record and returned,
\* and never with the answer of the pandas agent.
C30_DynamicResultQuestionOrQuotation ==
    [][\A session_id \in SessionIds :
        (IsTurnOf(session_id) /\ turn'.branch \in {"question", "quotation", "agent"}) =>
            LET before == context_of(session_id)
                after == conversation_context'[session_id]
            IN  /\ \A info \in merged_contexts(turn'.message, before, ExtractOutcomes) :
                    \A llm_resolver \in resolver_replies(info) :
                        LET dynamic_result ==
                                dynamic_response_for(info, snapshot_rows,
                                                     llm_resolver).result
                        IN  dynamic_result.needs_more_info # dynamic_result.has_quotation
                /\ turn'.branch # "agent"
                /\ turn'.branch = "question"
                    => /\ result'.quotation = NoneText
                       /\ result'.response.kind
                            \in {"question", "no_match", "low_confidence", "dynamic_error"}
                /\ turn'.branch = "quotation"
                    => /\ has_text(result'.quotation)
                       /\ after.last_quotation = result'.quotation]_vars

\* a turn whose best match was of low confidence ended with a question
C30_Witness ==
    /\ turn.op = "process_message"
    /\ turn.branch = "question"
    /\ turn.matches # <<>>
    /\ result.response.kind = "low_confidence"

====
